---- MODULE Spec2Model ----
(***************************************************************************)
(* Order timeline / progress state machine of the order-management         *)
(* backend: createOrder, updateOrder, advanceOrderPhase, updateOrderPhase  *)
(* (src/controllers/orderController.js) over the Order schema and its      *)
(* instance methods advancePhase / updateStatus.                           *)
(*                                                                         *)
(* A JavaScript object is a TLA+ function whose DOMAIN is the set of the   *)
(* properties it carries: an absent property is a missing key.  A stored   *)
(* document carries every schema path (the schema defaults fill the        *)
(* missing ones).  Of a timeline step the model keeps the title, the       *)
(* status enum and the three flags; id, description, duration and the      *)
(* date strings are carried through by the code without being read.        *)
(***************************************************************************)
EXTENDS Integers, Sequences, FiniteSets, TLC

VARIABLES orders,    \* the orders collection: storage key -> document or NoOrder
          last,      \* the response to the last request
          requests,  \* the number of requests handled so far
          req,       \* the request body under test (single-request specifications)
          admin,     \* req.admin of the request handled last (set by protect)
          customers, \* the customers collection: email -> customer document
          inflight,  \* the requests in flight (specifications of concurrent requests)
          accounts,  \* the admins collection: email -> admin document
          now        \* Date.now(), in hours

vars == <<orders, last, requests, req, admin, customers, inflight, accounts, now>>

\* ------------------------------------------------------------------------
\* JavaScript object helpers
\* ------------------------------------------------------------------------
Has(o, f) == f \in DOMAIN o

Put(o, f, v) == [x \in (DOMAIN o) \cup {f} |-> IF x = f THEN v ELSE o[x]]

\* truthiness of an optional string / number / boolean property
TruthyStr(o, f) == Has(o, f) /\ o[f] # ""
TruthyNum(o, f) == Has(o, f) /\ o[f] # 0
TruthyBool(o, f) == Has(o, f) /\ o[f]

EmptyObject == <<>>

Min(a, b) == IF a < b THEN a ELSE b
Max(a, b) == IF a > b THEN a ELSE b

\* the response to a request: the handler, the HTTP status, the error
\* message (if any) and the names of the properties the request body carried
Response(op, code, error, body) ==
    [op |-> op, code |-> code, error |-> error, carried |-> DOMAIN body]

\* ------------------------------------------------------------------------
\* Schema (models/Order)
\* ------------------------------------------------------------------------
NoOrder == [exists |-> FALSE]

OrderStatuses == {"Development", "In Progress", "Production", "Shipped", "Delivered", "Cancelled"}

StepStatuses == {"Locked", "In Progress", "Completed"}

\* progress.current: min 0, max 7
ProgressCurrentMin == 0
ProgressCurrentMax == 7

Step(t, s, c, p, l) ==
    [title |-> t, status |-> s, isCompleted |-> c, isInProgress |-> p, isLocked |-> l]

\* timelineStepSchema: title is required; status, isCompleted, isInProgress,
\* isLocked default to 'Locked', false, false, true.
timelineStepSchema(step) ==
    Step(step.title,
         IF Has(step, "status") THEN step.status ELSE "Locked",
         IF Has(step, "isCompleted") THEN step.isCompleted ELSE FALSE,
         IF Has(step, "isInProgress") THEN step.isInProgress ELSE FALSE,
         IF Has(step, "isLocked") THEN step.isLocked ELSE TRUE)

stepValid(step) ==
    /\ TruthyStr(step, "title")
    /\ Has(step, "status") => step.status \in StepStatuses

\* orderSchema: the document built from a request body, defaults applied.
orderSchema(body) ==
    [exists |-> TRUE,
     isActive |-> TRUE,
     status |-> IF Has(body, "status") THEN body.status ELSE "Development",
     currentPhase |-> IF Has(body, "currentPhase") THEN body.currentPhase ELSE "Offer Accepted",
     customer |-> IF Has(body, "customer") THEN body.customer ELSE EmptyObject,
     lastUpdatedBy |-> IF Has(body, "lastUpdatedBy") THEN body.lastUpdatedBy ELSE "",
     progress |-> [current |-> IF Has(body, "progress") /\ Has(body.progress, "current")
                               THEN body.progress.current ELSE 1,
                   total |-> IF Has(body, "progress") /\ Has(body.progress, "total")
                             THEN body.progress.total ELSE 7],
     timeline |-> IF Has(body, "timeline")
                  THEN [i \in 1..Len(body.timeline) |-> timelineStepSchema(body.timeline[i])]
                  ELSE <<>>]

\* schema validators run by Order.create, order.save and runValidators
bodyValid(body) ==
    /\ Has(body, "status") => body.status \in OrderStatuses
    /\ (Has(body, "progress") /\ Has(body.progress, "current")) =>
          /\ body.progress.current >= ProgressCurrentMin
          /\ body.progress.current <= ProgressCurrentMax
    /\ Has(body, "timeline") => \A i \in 1..Len(body.timeline) : stepValid(body.timeline[i])

docValid(doc) ==
    /\ doc.status \in OrderStatuses
    /\ doc.progress.current >= ProgressCurrentMin
    /\ doc.progress.current <= ProgressCurrentMax
    /\ \A i \in 1..Len(doc.timeline) :
          doc.timeline[i].title # "" /\ doc.timeline[i].status \in StepStatuses

\* ------------------------------------------------------------------------
\* createOrder
\* ------------------------------------------------------------------------
\* the titles of the base 7-step template of createOrder
createDefaultTimeline ==
    << "Offer Accepted",
       "Mold / Product in Development",
       "Sample Sent to Client",
       "Sample Approved",
       "Production Phase",
       "Transport Phase",
       "Delivered to Final Location" >>

\* String.prototype.toLowerCase on the status strings the validator admits
toLowerCase(s) ==
    CASE s = "Development" -> "development"
      [] s = "In Progress" -> "in progress"
      [] s = "Production" -> "production"
      [] s = "Shipped" -> "shipped"
      [] s = "Delivered" -> "delivered"
      [] s = "Cancelled" -> "cancelled"
      [] OTHER -> s

\* statusToProgress with the cursor of 'in progress' taken from the status
\* table of updateStatus (3) instead of 4
statusToProgress_tableMixup(body) ==
    IF ~Has(body, "status") THEN 1
    ELSE LET s == toLowerCase(body.status) IN
         CASE s = "development" -> 2
           [] s = "in progress" -> 3
           [] s = "production" -> 5
           [] s = "shipped" -> 6
           [] s = "delivered" -> 7
           [] OTHER -> 1

\* switch (req.body.status?.toLowerCase())
statusToProgress(body) ==
    IF ~Has(body, "status") THEN 1
    ELSE LET s == toLowerCase(body.status) IN
         CASE s = "development" -> 2
           [] s = "in progress" -> 4
           [] s = "production" -> 5
           [] s = "shipped" -> 6
           [] s = "delivered" -> 7
           [] OTHER -> 1

\* buildDefaultTimeline that compares the 0-based index with currentProgress
buildDefaultTimeline_zeroBased(currentProgress) ==
    [index0 \in 1..Len(createDefaultTimeline) |->
        LET stepPosition == index0 - 1 IN
        IF stepPosition < currentProgress
        THEN Step(createDefaultTimeline[index0], "Completed", TRUE, FALSE, FALSE)
        ELSE IF stepPosition = currentProgress
        THEN Step(createDefaultTimeline[index0], "In Progress", FALSE, TRUE, FALSE)
        ELSE Step(createDefaultTimeline[index0], "Locked", FALSE, FALSE, TRUE)]

\* defaultTimeline.map((step, index) => ...) on currentProgress
buildDefaultTimeline(currentProgress) ==
    [index0 \in 1..Len(createDefaultTimeline) |->
        LET stepPosition == index0 IN
        IF stepPosition < currentProgress
        THEN Step(createDefaultTimeline[index0], "Completed", TRUE, FALSE, FALSE)
        ELSE IF stepPosition = currentProgress
        THEN Step(createDefaultTimeline[index0], "In Progress", FALSE, TRUE, FALSE)
        ELSE Step(createDefaultTimeline[index0], "Locked", FALSE, FALSE, TRUE)]

\* createDefaults that maps the status only when progress.current is missing
\* or 0, and keeps a supplied 1
createDefaults_keepOne(body) ==
    IF ~Has(body, "timeline") \/ Len(body.timeline) = 0
    THEN LET b1 == IF ~Has(body, "progress")
                   THEN Put(body, "progress", [current |-> 1, total |-> 7])
                   ELSE body
             b2 == IF ~TruthyNum(b1.progress, "current")
                   THEN Put(b1, "progress", Put(b1.progress, "current", statusToProgress(b1)))
                   ELSE b1
         IN  Put(b2, "timeline", buildDefaultTimeline(b2.progress.current))
    ELSE body

\* req.body after the default-timeline block of createOrder
createDefaults(body) ==
    IF ~Has(body, "timeline") \/ Len(body.timeline) = 0
    THEN LET b1 == IF ~Has(body, "progress")
                   THEN Put(body, "progress", [current |-> 1, total |-> 7])
                   ELSE body
             b2 == IF ~TruthyNum(b1.progress, "current") \/ b1.progress.current = 1
                   THEN Put(b1, "progress", Put(b1.progress, "current", statusToProgress(b1)))
                   ELSE b1
         IN  Put(b2, "timeline", buildDefaultTimeline(b2.progress.current))
    ELSE body

\* req.body handed to Order.create
createBody(body) ==
    LET b3 == createDefaults(body)
        b4 == IF ~Has(b3, "progress")
              THEN Put(b3, "progress", [current |-> 1, total |-> 7])
              ELSE b3
        currentStepIndex == (IF TruthyNum(b4.progress, "current") THEN b4.progress.current ELSE 1) - 1
    IN  IF ~TruthyStr(b4, "currentPhase") /\ Has(b4, "timeline") /\ Len(b4.timeline) > 0
           /\ currentStepIndex + 1 \in 1..Len(b4.timeline)
           /\ Has(b4.timeline[currentStepIndex + 1], "title")
        THEN Put(b4, "currentPhase", b4.timeline[currentStepIndex + 1].title)
        ELSE b4

\* req.body.createdBy = req.admin._id; req.body.lastUpdatedBy = req.admin._id
byAdmin(body, a) == Put(body, "lastUpdatedBy", a)

\* customerSchema.methods.updateStatistics of the customer with this email,
\* on the orders collection os: totalOrders = the number of active orders
\* whose customer.email is the customer's
updateStatistics(cs, email, os) ==
    [cs EXCEPT ![email].totalOrders =
        Cardinality({k \in DOMAIN os :
                        /\ os[k] # NoOrder
                        /\ os[k].isActive
                        /\ Has(os[k].customer, "email")
                        /\ os[k].customer.email = email})]

\* Customer.findByEmail(req.body.customer.email), Customer.create if there
\* is none: the customers collection afterwards
findOrCreateCustomer(body) ==
    IF Has(body, "customer") /\ ~Has(customers, body.customer.email)
    THEN Put(customers, body.customer.email, [totalOrders |-> 0])
    ELSE customers

createOrder(k, body) ==
    /\ orders[k] = NoOrder
    /\ \E a \in {admin'} :
       LET found == findOrCreateCustomer(body)
           b == createBody(byAdmin(body, a)) IN
       IF bodyValid(b)
       THEN /\ orders' = [orders EXCEPT ![k] = orderSchema(b)]
            /\ customers' = IF Has(body, "customer")
                            THEN updateStatistics(found, body.customer.email, orders')
                            ELSE found
            /\ last' = Response("create", 201, "", body)
       ELSE /\ orders' = orders
            /\ customers' = found
            /\ last' = Response("create", 400, "ValidationError", body)

\* ------------------------------------------------------------------------
\* updateOrder
\* ------------------------------------------------------------------------
\* findOrderByIdOrOrderId without the isActive: true filter
findOrderByIdOrOrderId_anyOrder(k) == orders[k]

\* Helper function to find order by either MongoDB ObjectId or custom orderId:
\* both branches (Order.findOne by _id, by orderId) filter on isActive: true;
\* k is the storage key of the document the identifier designates
findOrderByIdOrOrderId(k) ==
    IF orders[k] # NoOrder /\ orders[k].isActive THEN orders[k] ELSE NoOrder

\* the titles of the base 7-step template of updateOrder
updateDefaultTimeline ==
    << "Offer Accepted",
       "Mold / Product in Development",
       "Sample Sent to Client",
       "Sample Approved",
       "Production Phase",
       "Transport Phase",
       "Delivered to Final Location" >>

\* req.body.timeline.map((step, index) => ({...}))
normalizedIncoming(timeline) ==
    [i \in 1..Len(timeline) |->
        LET step == timeline[i] IN
        Step(IF TruthyStr(step, "title") THEN step.title
             ELSE IF i <= Len(updateDefaultTimeline) THEN updateDefaultTimeline[i]
             ELSE "Step " \o ToString(i),
             IF TruthyStr(step, "status") THEN step.status
             ELSE IF TruthyBool(step, "isCompleted") THEN "Completed"
             ELSE IF TruthyBool(step, "isInProgress") THEN "In Progress"
             ELSE "Locked",
             TruthyBool(step, "isCompleted"),
             TruthyBool(step, "isInProgress"),
             ~(Has(step, "isLocked") /\ step.isLocked = FALSE))]

\* enforcedTimeline whose missing steps come back completed
enforcedTimeline_gapCompleted(incoming) ==
    [idx \in 1..Len(updateDefaultTimeline) |->
        IF idx <= Len(incoming)
        THEN LET provided == incoming[idx] IN
             Step(IF provided.title # "" THEN provided.title ELSE updateDefaultTimeline[idx],
                  provided.status, provided.isCompleted, provided.isInProgress, provided.isLocked)
        ELSE Step(updateDefaultTimeline[idx], "Completed", TRUE, FALSE, FALSE)]

\* defaultTimeline.map((tpl, idx) => ...): exactly the template's 7 positions
enforcedTimeline(incoming) ==
    [idx \in 1..Len(updateDefaultTimeline) |->
        IF idx <= Len(incoming)
        THEN LET provided == incoming[idx] IN
             Step(IF provided.title # "" THEN provided.title ELSE updateDefaultTimeline[idx],
                  provided.status, provided.isCompleted, provided.isInProgress, provided.isLocked)
        ELSE Step(updateDefaultTimeline[idx], "Locked", FALSE, FALSE, TRUE)]

\* computedCurrent that counts the completed steps only
computedCurrent_completedOnly(timeline) ==
    Cardinality({i \in 1..Len(timeline) : timeline[i].isCompleted})

\* computedCurrent that adds the number of in-progress steps instead of 1
computedCurrent_sum(timeline) ==
    LET completedSteps == Cardinality({i \in 1..Len(timeline) : timeline[i].isCompleted})
        inProgressSteps == Cardinality({i \in 1..Len(timeline) : timeline[i].isInProgress})
    IN  completedSteps + inProgressSteps

\* completedSteps + (inProgressSteps > 0 ? 1 : 0)
computedCurrent(timeline) ==
    LET completedSteps == Cardinality({i \in 1..Len(timeline) : timeline[i].isCompleted})
        inProgressSteps == Cardinality({i \in 1..Len(timeline) : timeline[i].isInProgress})
    IN  completedSteps + (IF inProgressSteps > 0 THEN 1 ELSE 0)

\* enforceSingleActiveStep that completes the step at the cursor when it is
\* already in progress
enforceSingleActiveStep_completing(timeline, currentIndex) ==
    [i \in 1..Len(timeline) |->
        LET index == i - 1
            item == timeline[i] IN
        IF index < currentIndex \/ (index = currentIndex /\ item.isInProgress)
        THEN Step(item.title, "Completed", TRUE, FALSE, FALSE)
        ELSE IF index = currentIndex
        THEN Step(item.title, "In Progress", FALSE, TRUE, FALSE)
        ELSE Step(item.title, "Locked", FALSE, FALSE, TRUE)]

\* enforcedTimeline.forEach((item, index) => ...), currentIndex 0-based
enforceSingleActiveStep(timeline, currentIndex) ==
    [i \in 1..Len(timeline) |->
        LET index == i - 1
            item == timeline[i] IN
        IF index < currentIndex
        THEN Step(item.title, "Completed", TRUE, FALSE, FALSE)
        ELSE IF index = currentIndex
        THEN Step(item.title, "In Progress", FALSE, TRUE, FALSE)
        ELSE Step(item.title, "Locked", FALSE, FALSE, TRUE)]

\* req.body after the timeline block of updateOrder
updateTimeline(body) ==
    IF Has(body, "timeline")
    THEN LET enforced == enforcedTimeline(normalizedIncoming(body.timeline))
             b1 == IF ~Has(body, "progress") THEN Put(body, "progress", EmptyObject) ELSE body
             current == Min(Max(computedCurrent(enforced), 1), 7)
             progress == Put(Put(b1.progress, "current", current), "total", 7)
             currentIndex == current - 1
             swept == enforceSingleActiveStep(enforced, currentIndex)
             phase == IF swept[currentIndex + 1].title # ""
                      THEN swept[currentIndex + 1].title ELSE "Offer Accepted"
         IN  Put(Put(Put(b1, "progress", progress), "timeline", swept), "currentPhase", phase)
    ELSE body

\* statusFromPercent whose Production threshold is 75 instead of 70
statusFromPercent_production75(progress) ==
    IF ~Has(progress, "current") \/ ~Has(progress, "total") THEN "Development"
    ELSE LET c == progress.current * 100
             t == progress.total IN
         IF c >= 100 * t THEN "Delivered"
         ELSE IF c >= 85 * t THEN "Shipped"
         ELSE IF c >= 75 * t THEN "Production"
         ELSE IF c >= 30 * t THEN "In Progress"
         ELSE "Development"

\* the threshold chain on progressPercent = current / total * 100; the
\* comparisons are done on current * 100 against threshold * total, which is
\* exact for the validated ranges.  A missing operand gives NaN, for which
\* every comparison is false.
statusFromPercent(progress) ==
    IF ~Has(progress, "current") \/ ~Has(progress, "total") THEN "Development"
    ELSE LET c == progress.current * 100
             t == progress.total IN
         IF c >= 100 * t THEN "Delivered"
         ELSE IF c >= 85 * t THEN "Shipped"
         ELSE IF c >= 70 * t THEN "Production"
         ELSE IF c >= 30 * t THEN "In Progress"
         ELSE "Development"

\* updateBody that derives the status from the progress even when the caller
\* supplied one
updateBody_alwaysDerive(body) ==
    LET b2 == updateTimeline(body) IN
    IF Has(b2, "progress")
    THEN Put(b2, "status", statusFromPercent(b2.progress))
    ELSE b2

\* req.body handed to findByIdAndUpdate / findOneAndUpdate
updateBody(body) ==
    LET b2 == updateTimeline(body) IN
    IF Has(b2, "progress") /\ ~TruthyStr(b2, "status")
    THEN Put(b2, "status", statusFromPercent(b2.progress))
    ELSE b2

\* findOneAndUpdate that also sweeps the stored timeline to the cursor of a
\* body that carries progress without a timeline
findOneAndUpdate_resweep(doc, body) ==
    LET fresh == orderSchema(body) IN
    [doc EXCEPT
        !.status = IF Has(body, "status") THEN fresh.status ELSE @,
        !.currentPhase = IF Has(body, "currentPhase") THEN fresh.currentPhase ELSE @,
        !.progress = IF Has(body, "progress") THEN fresh.progress ELSE @,
        !.customer = IF Has(body, "customer") THEN fresh.customer ELSE @,
        !.lastUpdatedBy = IF Has(body, "lastUpdatedBy") THEN fresh.lastUpdatedBy ELSE @,
        !.timeline = IF Has(body, "timeline") THEN fresh.timeline
                     ELSE IF Has(body, "progress")
                     THEN enforceSingleActiveStep(@, fresh.progress.current - 1)
                     ELSE @]

\* findOneAndUpdate: every path the body carries is $set; the nested
\* progress object is replaced as a whole and its missing paths read back
\* as the schema defaults.
findOneAndUpdate(doc, body) ==
    LET fresh == orderSchema(body) IN
    [doc EXCEPT
        !.status = IF Has(body, "status") THEN fresh.status ELSE @,
        !.currentPhase = IF Has(body, "currentPhase") THEN fresh.currentPhase ELSE @,
        !.progress = IF Has(body, "progress") THEN fresh.progress ELSE @,
        !.customer = IF Has(body, "customer") THEN fresh.customer ELSE @,
        !.lastUpdatedBy = IF Has(body, "lastUpdatedBy") THEN fresh.lastUpdatedBy ELSE @,
        !.timeline = IF Has(body, "timeline") THEN fresh.timeline ELSE @]

updateOrder(k, body) ==
    LET order == findOrderByIdOrOrderId(k) IN
    IF order = NoOrder
    THEN /\ orders' = orders
         /\ customers' = customers
         /\ last' = Response("update", 404, "not found", body)
    ELSE LET email == Has(body, "customer") /\ TruthyStr(body.customer, "email")
             \* req.body.customer.email !== order.customer.email, no such customer
             creates == /\ email
                        /\ ~(Has(order.customer, "email")
                               /\ order.customer.email = body.customer.email)
                        /\ ~Has(customers, body.customer.email)
         IN  IF creates /\ ~TruthyStr(body.customer, "name")
             THEN \* Customer.create without the required name
                  /\ orders' = orders
                  /\ customers' = customers
                  /\ last' = Response("update", 400, "ValidationError", body)
             ELSE \E a \in {admin'} :
                  LET found == IF creates
                               THEN Put(customers, body.customer.email, [totalOrders |-> 0])
                               ELSE customers
                      b == updateBody(byAdmin(body, a))
                  IN  IF bodyValid(b)
                      THEN /\ orders' = [orders EXCEPT ![k] = findOneAndUpdate(order, b)]
                           /\ customers' = IF email /\ Has(found, body.customer.email)
                                           THEN updateStatistics(found, body.customer.email, orders')
                                           ELSE found
                           /\ last' = Response("update", 200, "", body)
                      ELSE /\ orders' = orders
                           /\ customers' = found
                           /\ last' = Response("update", 400, "ValidationError", body)

\* ------------------------------------------------------------------------
\* advanceOrderPhase
\* ------------------------------------------------------------------------
\* updateStatus whose fallback for a cursor outside the table is 'Cancelled'
updateStatus_fallbackCancelled(doc) ==
    LET c == doc.progress.current
        phaseStatusMap ==
            CASE c = 1 -> "Development"
              [] c = 2 -> "Development"
              [] c = 3 -> "In Progress"
              [] c = 4 -> "In Progress"
              [] c = 5 -> "Production"
              [] c = 6 -> "Shipped"
              [] c = 7 -> "Delivered"
              [] OTHER -> "Cancelled"
    IN  [doc EXCEPT !.status = phaseStatusMap]

\* orderSchema.methods.updateStatus: phaseStatusMap[current] || 'Development'
updateStatus(doc) ==
    LET c == doc.progress.current
        phaseStatusMap ==
            CASE c = 1 -> "Development"
              [] c = 2 -> "Development"
              [] c = 3 -> "In Progress"
              [] c = 4 -> "In Progress"
              [] c = 5 -> "Production"
              [] c = 6 -> "Shipped"
              [] c = 7 -> "Delivered"
              [] OTHER -> "Development"
    IN  [doc EXCEPT !.status = phaseStatusMap]

\* advancePhase that starts the next step without completing the current one
advancePhase_noComplete(doc) ==
    IF doc.progress.current < doc.progress.total
    THEN LET next == doc.progress.current + 1
             phase == IF next \in 1..Len(doc.timeline) /\ doc.timeline[next].title # ""
                      THEN doc.timeline[next].title ELSE doc.currentPhase
             t2 == IF next \in 1..Len(doc.timeline)
                   THEN [doc.timeline EXCEPT ![next] =
                            [@ EXCEPT !.status = "In Progress",
                                      !.isInProgress = TRUE,
                                      !.isLocked = FALSE]]
                   ELSE doc.timeline
         IN  updateStatus([doc EXCEPT !.progress.current = next,
                                      !.currentPhase = phase,
                                      !.timeline = t2])
    ELSE doc

\* advancePhase that does not end with this.updateStatus()
advancePhase_noStatus(doc) ==
    IF doc.progress.current < doc.progress.total
    THEN LET c == doc.progress.current
             t1 == IF c \in 1..Len(doc.timeline)
                   THEN [doc.timeline EXCEPT ![c] =
                            [@ EXCEPT !.status = "Completed",
                                      !.isCompleted = TRUE,
                                      !.isInProgress = FALSE]]
                   ELSE doc.timeline
             next == c + 1
             phase == IF next \in 1..Len(t1) /\ t1[next].title # ""
                      THEN t1[next].title ELSE doc.currentPhase
             t2 == IF next \in 1..Len(t1)
                   THEN [t1 EXCEPT ![next] =
                            [@ EXCEPT !.status = "In Progress",
                                      !.isInProgress = TRUE,
                                      !.isLocked = FALSE]]
                   ELSE t1
         IN  [doc EXCEPT !.progress.current = next,
                         !.currentPhase = phase,
                         !.timeline = t2]
    ELSE doc

\* orderSchema.methods.advancePhase
advancePhase(doc) ==
    IF doc.progress.current < doc.progress.total
    THEN LET c == doc.progress.current
             t1 == IF c \in 1..Len(doc.timeline)
                   THEN [doc.timeline EXCEPT ![c] =
                            [@ EXCEPT !.status = "Completed",
                                      !.isCompleted = TRUE,
                                      !.isInProgress = FALSE]]
                   ELSE doc.timeline
             next == c + 1
             phase == IF next \in 1..Len(t1) /\ t1[next].title # ""
                      THEN t1[next].title ELSE doc.currentPhase
             t2 == IF next \in 1..Len(t1)
                   THEN [t1 EXCEPT ![next] =
                            [@ EXCEPT !.status = "In Progress",
                                      !.isInProgress = TRUE,
                                      !.isLocked = FALSE]]
                   ELSE t1
         IN  updateStatus([doc EXCEPT !.progress.current = next,
                                      !.currentPhase = phase,
                                      !.timeline = t2])
    ELSE doc

\* advanceOrderPhase that refuses only when current > total
advanceOrderPhase_strict(k) ==
    LET order == findOrderByIdOrOrderId(k) IN
    IF order = NoOrder
    THEN /\ UNCHANGED <<orders, customers>>
         /\ last' = Response("advance", 404, "not found", EmptyObject)
    ELSE IF order.progress.current > order.progress.total
    THEN /\ UNCHANGED <<orders, customers>>
         /\ last' = Response("advance", 400, "Order is already at the final phase", EmptyObject)
    ELSE \E a \in {admin'} :
         LET advanced == [advancePhase(order) EXCEPT !.lastUpdatedBy = a] IN
         IF docValid(advanced)
         THEN /\ orders' = [orders EXCEPT ![k] = advanced]
              /\ UNCHANGED customers
              /\ last' = Response("advance", 200, "", EmptyObject)
         ELSE /\ UNCHANGED <<orders, customers>>
              /\ last' = Response("advance", 400, "ValidationError", EmptyObject)

advanceOrderPhase(k) ==
    LET order == findOrderByIdOrOrderId(k) IN
    IF order = NoOrder
    THEN /\ UNCHANGED <<orders, customers>>
         /\ last' = Response("advance", 404, "not found", EmptyObject)
    ELSE IF order.progress.current >= order.progress.total
    THEN /\ UNCHANGED <<orders, customers>>
         /\ last' = Response("advance", 400, "Order is already at the final phase", EmptyObject)
    ELSE \E a \in {admin'} :
         LET advanced == [advancePhase(order) EXCEPT !.lastUpdatedBy = a] IN
         IF docValid(advanced)
         THEN /\ orders' = [orders EXCEPT ![k] = advanced]
              /\ UNCHANGED customers
              /\ last' = Response("advance", 200, "", EmptyObject)
         ELSE /\ UNCHANGED <<orders, customers>>
              /\ last' = Response("advance", 400, "ValidationError", EmptyObject)

\* ------------------------------------------------------------------------
\* updateOrderPhase
\* ------------------------------------------------------------------------
\* order.timeline.findIndex(item => item.title === phase), 0-based, -1 if none
findIndex(timeline, body) ==
    LET hits == {i \in 1..Len(timeline) : Has(body, "phase") /\ timeline[i].title = body.phase} IN
    IF hits = {} THEN -1
    ELSE (CHOOSE i \in hits : \A j \in hits : i <= j) - 1

\* order.timeline.forEach((item, index) => ...) on order.progress.current
updateTimelineStatus(timeline, current) ==
    [i \in 1..Len(timeline) |->
        LET index == i - 1
            item == timeline[i] IN
        IF index < current - 1
        THEN [item EXCEPT !.status = "Completed", !.isCompleted = TRUE,
                          !.isInProgress = FALSE, !.isLocked = FALSE]
        ELSE IF index = current - 1
        THEN [item EXCEPT !.status = "In Progress", !.isCompleted = FALSE,
                          !.isInProgress = TRUE, !.isLocked = FALSE]
        ELSE [item EXCEPT !.status = "Locked", !.isCompleted = FALSE,
                          !.isInProgress = FALSE, !.isLocked = TRUE]]

\* setPhase that takes the 0-based phaseIndex as the cursor
setPhase_zeroBased(order, body, phaseIndex) ==
    LET current == IF Has(body, "progress")
                   THEN Min(Max(body.progress, 0), order.progress.total)
                   ELSE phaseIndex
    IN  updateStatus([order EXCEPT !.progress.current = current,
                                   !.currentPhase = body.phase,
                                   !.timeline = updateTimelineStatus(order.timeline, current)])

\* the order document updateOrderPhase hands to save()
setPhase(order, body, phaseIndex) ==
    LET current == IF Has(body, "progress")
                   THEN Min(Max(body.progress, 0), order.progress.total)
                   ELSE phaseIndex + 1
    IN  updateStatus([order EXCEPT !.progress.current = current,
                                   !.currentPhase = body.phase,
                                   !.timeline = updateTimelineStatus(order.timeline, current)])

\* updateOrderPhase that validates the phase only when no progress is given
updateOrderPhase_unchecked(k, body) ==
    LET order == findOrderByIdOrOrderId(k) IN
    IF order = NoOrder
    THEN /\ UNCHANGED <<orders, customers>>
         /\ last' = Response("phase", 404, "not found", body)
    ELSE LET phaseIndex == findIndex(order.timeline, body) IN
         IF phaseIndex = -1 /\ ~(Has(body, "progress") /\ Has(body, "phase"))
         THEN /\ UNCHANGED <<orders, customers>>
              /\ last' = Response("phase", 400, "Invalid phase specified", body)
         ELSE \E a \in {admin'} :
              LET updated == [setPhase(order, body, phaseIndex) EXCEPT !.lastUpdatedBy = a] IN
              IF docValid(updated)
              THEN /\ orders' = [orders EXCEPT ![k] = updated]
                   /\ UNCHANGED customers
                   /\ last' = Response("phase", 200, "", body)
              ELSE /\ UNCHANGED <<orders, customers>>
                   /\ last' = Response("phase", 400, "ValidationError", body)

updateOrderPhase(k, body) ==
    LET order == findOrderByIdOrOrderId(k) IN
    IF order = NoOrder
    THEN /\ UNCHANGED <<orders, customers>>
         /\ last' = Response("phase", 404, "not found", body)
    ELSE LET phaseIndex == findIndex(order.timeline, body) IN
         IF phaseIndex = -1
         THEN /\ UNCHANGED <<orders, customers>>
              /\ last' = Response("phase", 400, "Invalid phase specified", body)
         ELSE \E a \in {admin'} :
              LET updated == [setPhase(order, body, phaseIndex) EXCEPT !.lastUpdatedBy = a] IN
              IF docValid(updated)
              THEN /\ orders' = [orders EXCEPT ![k] = updated]
                   /\ UNCHANGED customers
                   /\ last' = Response("phase", 200, "", body)
              ELSE /\ UNCHANGED <<orders, customers>>
                   /\ last' = Response("phase", 400, "ValidationError", body)

\* ------------------------------------------------------------------------
\* getOrder, deleteOrder, hardDeleteOrder
\* ------------------------------------------------------------------------
\* Helper to find order regardless of isActive (for hard delete)
findAnyOrderByIdOrOrderId(k) == orders[k]

getOrder(k) ==
    LET order == findOrderByIdOrOrderId(k) IN
    /\ UNCHANGED <<orders, customers>>
    /\ last' = IF order = NoOrder
               THEN Response("get", 404, "not found", EmptyObject)
               ELSE Response("get", 200, "", EmptyObject)

\* Delete order (soft delete): order.save() writes isActive and lastUpdatedBy,
\* then the statistics of the order's customer are recomputed
deleteOrder(k) ==
    LET order == findOrderByIdOrOrderId(k) IN
    IF order = NoOrder
    THEN /\ UNCHANGED <<orders, customers>>
         /\ last' = Response("delete", 404, "not found", EmptyObject)
    ELSE \E a \in {admin'} :
         LET deleted == [order EXCEPT !.isActive = FALSE, !.lastUpdatedBy = a] IN
         /\ orders' = [orders EXCEPT ![k] = deleted]
         /\ customers' = IF Has(order.customer, "email") /\ Has(customers, order.customer.email)
                         THEN updateStatistics(customers, order.customer.email, orders')
                         ELSE customers
         /\ last' = Response("delete", 200, "", EmptyObject)

\* Delete order permanently (hard delete): Order.deleteOne, no recompute of
\* the customer's statistics
hardDeleteOrder(k) ==
    LET order == findAnyOrderByIdOrOrderId(k) IN
    IF order = NoOrder
    THEN /\ UNCHANGED <<orders, customers>>
         /\ last' = Response("hardDelete", 404, "not found", EmptyObject)
    ELSE /\ orders' = [orders EXCEPT ![k] = NoOrder]
         /\ UNCHANGED customers
         /\ last' = Response("hardDelete", 200, "", EmptyObject)

\* ------------------------------------------------------------------------
\* Requests
\* ------------------------------------------------------------------------
\* the storage keys of the orders collection
OrderKeys == {"order1"}

\* the longest timeline array a request carries
MaxTimelineLen == 8

\* an object with the properties of o for which keep holds
Only(o, keep) == [x \in (DOMAIN o) \cap keep |-> o[x]]

\* the objects that carry any subset of the properties of the records in full
Partial(full) == UNION {{Only(o, keep) : keep \in SUBSET (DOMAIN o)} : o \in full}

\* the progress objects of the requests: each passes validateCreateOrder /
\* validateUpdateOrder (current an integer in 0..7, total an integer in
\* 1..10, both optional)
ProgressInputs ==
    {EmptyObject, [current |-> 0], [current |-> 5], [current |-> 1, total |-> 7],
     [current |-> 7, total |-> 3], [current |-> 7, total |-> 10]}

\* partial timeline steps as a client sends them to updateOrder
StepDone == [isCompleted |-> TRUE]
StepActive == [isInProgress |-> TRUE]
StepBlank == EmptyObject
StepNamed == [title |-> "Custom Step", isCompleted |-> TRUE]
StepStatusOnly == [status |-> "Completed", isLocked |-> FALSE]
StepRenamed == [title |-> "Production Phase", isCompleted |-> TRUE]
StepBoth == [isCompleted |-> TRUE, isInProgress |-> TRUE]

Repeat(x, n) == [i \in 1..n |-> x]

\* d completed steps, then a in-progress steps, then e steps without fields
TimelineShape(d, a, e) == Repeat(StepDone, d) \o Repeat(StepActive, a) \o Repeat(StepBlank, e)

UpdateTimelines ==
    {TimelineShape(d, 1, e) : d \in {0, 3, 6}, e \in {0, 2}}
    \cup {<<>>, Repeat(StepDone, MaxTimelineLen),
          <<StepActive, StepDone, StepActive>>,
          <<StepNamed, StepActive>>,
          <<StepStatusOnly, StepStatusOnly, StepActive>>,
          <<StepDone, StepNamed, StepNamed, StepActive>>,
          <<StepRenamed, StepActive>>}

UpdatePayloads ==
    Partial([status : {"Cancelled"}, progress : ProgressInputs])
    \cup {[timeline |-> t] : t \in UpdateTimelines}
    \cup {[timeline |-> TimelineShape(d, 1, 0), status |-> "Cancelled",
           progress |-> [current |-> 2, total |-> 10]] : d \in {0, 3}}

\* timelines as a client sends them to createOrder
CreateTimelines ==
    {<<>>,
     buildDefaultTimeline(3),
     <<[title |-> "Offer Accepted", isCompleted |-> TRUE],
       [title |-> "Custom Step", isInProgress |-> TRUE],
       [title |-> "Custom Step", isInProgress |-> TRUE]>>,
     <<[title |-> "Offer Accepted", status |-> "Completed"],
       [title |-> "Production Phase"]>>,
     <<[isCompleted |-> TRUE]>>,
     [i \in 1..MaxTimelineLen |->
        [title |-> IF i <= 7 THEN createDefaultTimeline[i] ELSE "Custom Step",
         status |-> "Locked"]]}

CreatePayloads ==
    Partial([status : OrderStatuses, progress : ProgressInputs])
    \cup {Put(b, "timeline", t) :
            b \in Partial([status : {"Shipped"},
                           progress : {[current |-> 0], [current |-> 5],
                                       [current |-> 2, total |-> 10]}]),
            t \in CreateTimelines}

PhaseNames ==
    {"Offer Accepted", "Production Phase", "Delivered to Final Location",
     "Custom Step", "No Such Phase"}

PhasePayloads == Partial([phase : PhaseNames, progress : {-1, 11}])

\* ------------------------------------------------------------------------
\* Specification
\* ------------------------------------------------------------------------
\* the number of requests of a run
MaxRequests == 4

\* the admins that hold a token
Admins == {"admin1", "admin2"}

Init ==
    /\ orders = [k \in OrderKeys |-> NoOrder]
    /\ last = Response("none", 0, "", EmptyObject)
    /\ requests = 0
    /\ req = EmptyObject
    /\ admin = ""
    /\ customers = EmptyObject
    /\ inflight = EmptyObject
    /\ accounts = EmptyObject
    /\ now = 0

\* a request of one of the admins; protect sets req.admin
RequestBy(admins) ==
    /\ requests < MaxRequests
    /\ requests' = requests + 1
    /\ admin' \in admins
    /\ UNCHANGED <<req, inflight, accounts, now>>

\* the requests of Spec are made by one admin
Request == RequestBy({"admin1"})

Create == Request /\ \E k \in OrderKeys, body \in CreatePayloads : createOrder(k, body)

Update == Request /\ \E k \in OrderKeys, body \in UpdatePayloads : updateOrder(k, body)

Advance == Request /\ \E k \in OrderKeys : advanceOrderPhase(k)

Phase == Request /\ \E k \in OrderKeys, body \in PhasePayloads : updateOrderPhase(k, body)

Next == Create \/ Update \/ Advance \/ Phase

Spec == Init /\ [][Next]_vars

\* ------------------------------------------------------------------------
\* Specification of one updateOrder request that carries a timeline
\* ------------------------------------------------------------------------
\* every sequence over the set kinds of at most n elements
SeqsUpTo(kinds, n) == UNION {[1..m -> kinds] : m \in 0..n}

TimelineRequests ==
    {Put(b, "timeline", t) :
        b \in Partial([status : {"Cancelled"}, progress : {[current |-> 2, total |-> 10]}]),
        t \in SeqsUpTo({StepDone, StepActive, StepBlank}, MaxTimelineLen) \cup UpdateTimelines}

\* orders as createOrder stores them
StoredByCreate ==
    {orderSchema(createBody(byAdmin(b, "admin1"))) :
        b \in {EmptyObject, [status |-> "Delivered"],
               [progress |-> [current |-> 7, total |-> 3]]}}

\* update requests that carry a currentPhase, with and without a timeline,
\* and requests without a timeline
UpdateRequests ==
    TimelineRequests
    \cup Partial([status : {"Cancelled", "Shipped"}, progress : ProgressInputs,
                  currentPhase : {"Transport Phase"}])
    \cup {Put(Put(b, "currentPhase", "Transport Phase"), "timeline", t) :
            b \in Partial([status : {"Cancelled"}, progress : {[current |-> 2, total |-> 10]}]),
            t \in UpdateTimelines}
    \cup {[timeline |-> t] : t \in {<<StepBoth>>, <<StepDone, StepBoth>>,
                                     <<StepBoth, StepBoth, StepBlank>>}}

InitUpdate ==
    /\ orders \in [OrderKeys -> StoredByCreate]
    /\ last = Response("none", 0, "", EmptyObject)
    /\ requests = 0
    /\ req \in UpdateRequests
    /\ admin = "admin1"
    /\ customers = EmptyObject
    /\ inflight = EmptyObject
    /\ accounts = EmptyObject
    /\ now = 0

ApplyUpdate ==
    /\ requests = 0
    /\ requests' = 1
    /\ UNCHANGED <<req, admin, inflight, accounts, now>>
    /\ \E k \in OrderKeys : updateOrder(k, req)

NextUpdate == ApplyUpdate

SpecUpdate == InitUpdate /\ [][NextUpdate]_vars

\* ------------------------------------------------------------------------
\* Specification of one createOrder request without a timeline
\* ------------------------------------------------------------------------
\* create requests that pass validateCreateOrder: every status, every
\* progress.current of 0..7, with and without a total, with no timeline and
\* with an empty one
DefaultTimelineRequests ==
    LET progresses == Partial([current : ProgressCurrentMin..ProgressCurrentMax, total : {7, 10}])
        bodies == Partial([status : OrderStatuses, progress : progresses])
    IN  bodies \cup {Put(b, "timeline", <<>>) : b \in bodies}

InitCreate ==
    /\ orders = [k \in OrderKeys |-> NoOrder]
    /\ last = Response("none", 0, "", EmptyObject)
    /\ requests = 0
    /\ req \in DefaultTimelineRequests
    /\ admin = "admin1"
    /\ customers = EmptyObject
    /\ inflight = EmptyObject
    /\ accounts = EmptyObject
    /\ now = 0

ApplyCreate ==
    /\ requests = 0
    /\ requests' = 1
    /\ UNCHANGED <<req, admin, inflight, accounts, now>>
    /\ \E k \in OrderKeys : createOrder(k, req)

NextCreate == ApplyCreate

SpecCreate == InitCreate /\ [][NextCreate]_vars

\* ------------------------------------------------------------------------
\* Specification of repeated advanceOrderPhase requests on one 7-step order
\* ------------------------------------------------------------------------
\* the number of advance requests of a run
MaxAdvances == 9

\* 7-step orders with total 7 as the handlers store them: created from a
\* status and a cursor, moved by a progress-only update, put on cursor 0 by
\* updateOrderPhase with a negative progress
StandardOrders ==
    LET created == {orderSchema(createBody(byAdmin(b, "admin1"))) :
                       b \in Partial([status : OrderStatuses,
                                      progress : {[current |-> c, total |-> 7] : c \in 2..7}])}
    IN  created
        \cup {findOneAndUpdate(doc, updateBody([progress |-> [current |-> c, total |-> 7]])) :
                 doc \in created, c \in {0, 5}}
        \cup {setPhase(doc, [phase |-> "Offer Accepted", progress |-> -1], 0) : doc \in created}

InitAdvance ==
    /\ orders \in [OrderKeys -> StandardOrders]
    /\ last = Response("none", 0, "", EmptyObject)
    /\ requests = 0
    /\ req = [k \in OrderKeys |-> orders[k].progress.current]
    /\ admin = "admin1"
    /\ customers = EmptyObject
    /\ inflight = EmptyObject
    /\ accounts = EmptyObject
    /\ now = 0

AdvanceAgain ==
    /\ requests < MaxAdvances
    /\ requests' = requests + 1
    /\ UNCHANGED <<req, admin, inflight, accounts, now>>
    /\ \E k \in OrderKeys : advanceOrderPhase(k)

NextAdvance == AdvanceAgain

SpecAdvance == InitAdvance /\ [][NextAdvance]_vars

\* ------------------------------------------------------------------------
\* Specification of one request that puts a 7-step order on a cursor: an
\* update that carries the progress (status from the percentage), a phase
\* change or an advance (status from updateStatus)
\* ------------------------------------------------------------------------
CursorRequests ==
    {[progress |-> [current |-> c, total |-> 7]] : c \in 1..7}
    \cup {[phase |-> createDefaultTimeline[c]] : c \in 1..7}
    \cup {EmptyObject}

InitCursor ==
    /\ orders \in [OrderKeys -> StandardOrders]
    /\ last = Response("none", 0, "", EmptyObject)
    /\ requests = 0
    /\ req \in CursorRequests
    /\ admin = "admin1"
    /\ customers = EmptyObject
    /\ inflight = EmptyObject
    /\ accounts = EmptyObject
    /\ now = 0

CursorRequest ==
    /\ requests = 0
    /\ requests' = 1
    /\ UNCHANGED <<req, admin, inflight, accounts, now>>

CursorByUpdate ==
    CursorRequest /\ Has(req, "progress") /\ \E k \in OrderKeys : updateOrder(k, req)

CursorByPhase ==
    CursorRequest /\ Has(req, "phase") /\ \E k \in OrderKeys : updateOrderPhase(k, req)

CursorByAdvance ==
    CursorRequest /\ req = EmptyObject /\ \E k \in OrderKeys : advanceOrderPhase(k)

NextCursor == CursorByUpdate \/ CursorByPhase \/ CursorByAdvance

SpecCursor == InitCursor /\ [][NextCursor]_vars

\* ------------------------------------------------------------------------
\* Specification of the two sweeps (the forEach of updateOrder, the forEach
\* of updateOrderPhase) applied up to twice to one timeline with one cursor
\* ------------------------------------------------------------------------
\* the longest timeline the sweeps are applied to
MaxSweepLen == 3

\* steps as the sweeps receive them: consistent ones and one whose flags
\* contradict its status
SweepSteps ==
    {Step("Offer Accepted", "Locked", FALSE, FALSE, TRUE),
     Step("Custom Step", "Completed", TRUE, FALSE, FALSE),
     Step("Production Phase", "In Progress", FALSE, TRUE, FALSE),
     Step("Custom Step", "Locked", TRUE, TRUE, FALSE)}

SweepTimelines ==
    SeqsUpTo(SweepSteps, MaxSweepLen)
    \cup {buildDefaultTimeline(c) : c \in {1, 4, 7}}

\* the cursors: updateOrder clamps to 1..7, updateOrderPhase to 0..total
SweepCursors == {0, 1, 2, 3, 7}

InitSweep ==
    /\ orders = [k \in OrderKeys |-> NoOrder]
    /\ last = Response("none", 0, "", EmptyObject)
    /\ requests = 0
    /\ req \in [timeline : SweepTimelines, current : SweepCursors]
    /\ admin = ""
    /\ customers = EmptyObject
    /\ inflight = [timeline |-> req.timeline, once |-> <<>>]
    /\ accounts = EmptyObject
    /\ now = 0

\* the timeline after one more pass; once keeps the result of the first pass
Swept(timeline) ==
    /\ requests < 2
    /\ requests' = requests + 1
    /\ inflight' = [timeline |-> timeline,
                    once |-> IF requests = 0 THEN timeline ELSE inflight.once]
    /\ UNCHANGED <<orders, last, req, admin, customers, accounts, now>>

SweepByUpdate ==
    /\ req.current >= 1
    /\ Swept(enforceSingleActiveStep(inflight.timeline, req.current - 1))

SweepByPhase == Swept(updateTimelineStatus(inflight.timeline, req.current))

NextSweep == SweepByUpdate \/ SweepByPhase

SpecSweep == InitSweep /\ [][NextSweep]_vars

\* ------------------------------------------------------------------------
\* Specification of one updateOrder request that sends an order's own
\* timeline back
\* ------------------------------------------------------------------------
\* the standard orders, and the same with two steps renamed by an update,
\* whose timeline is the sweep of its own cursor and whose cursor is within
\* 1..total
WellFormedOrders ==
    {doc \in StandardOrders
              \cup {findOneAndUpdate(d, updateBody([timeline |-> <<StepNamed, StepNamed, StepActive>>])) :
                       d \in StandardOrders} :
        /\ doc.progress.current \in 1..doc.progress.total
        /\ doc.timeline = enforceSingleActiveStep(doc.timeline, doc.progress.current - 1)}

InitResubmit ==
    /\ orders \in [OrderKeys -> WellFormedOrders]
    /\ last = Response("none", 0, "", EmptyObject)
    /\ requests = 0
    /\ req \in UNION {{[timeline |-> orders[k].timeline],
                        [timeline |-> orders[k].timeline, status |-> orders[k].status],
                        [timeline |-> orders[k].timeline, status |-> "Cancelled"]} :
                          k \in OrderKeys}
    /\ admin = "admin1"
    /\ customers = EmptyObject
    /\ inflight = EmptyObject
    /\ accounts = EmptyObject
    /\ now = 0

Resubmit ==
    /\ requests = 0
    /\ requests' = 1
    /\ UNCHANGED <<req, admin, inflight, accounts, now>>
    /\ \E k \in OrderKeys : updateOrder(k, req)

NextResubmit == Resubmit

SpecResubmit == InitResubmit /\ [][NextResubmit]_vars

\* ------------------------------------------------------------------------
\* Specification of the store: two orders, their customers, soft and hard
\* delete, requests of two admins
\* ------------------------------------------------------------------------
\* the number of requests of a run of SpecStore
MaxStoreRequests == 5

StoreKeys == {"order1", "order2"}

\* customer objects as validateCreateOrder admits them (name and a
\* normalized email)
Alice == [email |-> "alice@example.com", name |-> "Alice"]
Bob == [email |-> "bob@example.com", name |-> "Bob"]

StoreCreatePayloads ==
    {[customer |-> Alice],
     [customer |-> Bob],
     [customer |-> Bob, timeline |-> <<[isCompleted |-> TRUE]>>]}

\* validateUpdateOrder: customer.name and customer.email are optional
StoreUpdatePayloads ==
    {[customer |-> Alice],
     [customer |-> [email |-> "bob@example.com"]],
     [progress |-> [current |-> 5, total |-> 7]]}

StorePhasePayloads == {[phase |-> "Transport Phase"]}

StoreInit ==
    /\ orders = [k \in StoreKeys |-> NoOrder]
    /\ last = Response("none", 0, "", EmptyObject)
    /\ requests = 0
    /\ req = EmptyObject
    /\ admin = ""
    /\ customers = EmptyObject
    /\ inflight = EmptyObject
    /\ accounts = EmptyObject
    /\ now = 0

StoreRequest ==
    /\ requests < MaxStoreRequests
    /\ requests' = requests + 1
    /\ admin' \in Admins
    /\ UNCHANGED <<req, inflight, accounts, now>>

StoreCreate ==
    StoreRequest /\ \E k \in StoreKeys, body \in StoreCreatePayloads : createOrder(k, body)

StoreUpdate ==
    StoreRequest /\ \E k \in StoreKeys, body \in StoreUpdatePayloads : updateOrder(k, body)

StoreAdvance == StoreRequest /\ \E k \in StoreKeys : advanceOrderPhase(k)

StorePhase ==
    StoreRequest /\ \E k \in StoreKeys, body \in StorePhasePayloads : updateOrderPhase(k, body)

StoreGet == StoreRequest /\ \E k \in StoreKeys : getOrder(k)

StoreDelete == StoreRequest /\ \E k \in StoreKeys : deleteOrder(k)

StoreHardDelete == StoreRequest /\ \E k \in StoreKeys : hardDeleteOrder(k)

StoreNext ==
    \/ StoreCreate \/ StoreUpdate \/ StoreAdvance \/ StorePhase
    \/ StoreGet \/ StoreDelete \/ StoreHardDelete

SpecStore == StoreInit /\ [][StoreNext]_vars

\* ------------------------------------------------------------------------
\* Specification of concurrent advanceOrderPhase requests on one order.  The
\* handler suspends at its two awaits: the findOne of findOrderByIdOrOrderId
\* and order.save(); the check and order.advancePhase() run on the document
\* read, in memory, between them.
\* ------------------------------------------------------------------------
\* the number of concurrent requests
MaxRacers == 3

Racers == 1..MaxRacers

\* order.save() of a document read as read and changed in memory to doc: the
\* store receives the paths whose value was changed ($set of the modified
\* paths), whatever it holds by now.  The version key is compared only by
\* saves that change array positions and no handler increments it, so the
\* write is never refused.
save(stored, read, doc) ==
    [stored EXCEPT
        !.status = IF doc.status # read.status THEN doc.status ELSE @,
        !.currentPhase = IF doc.currentPhase # read.currentPhase THEN doc.currentPhase ELSE @,
        !.lastUpdatedBy = IF doc.lastUpdatedBy # read.lastUpdatedBy THEN doc.lastUpdatedBy ELSE @,
        !.isActive = IF doc.isActive # read.isActive THEN doc.isActive ELSE @,
        !.progress = [current |-> IF doc.progress.current # read.progress.current
                                  THEN doc.progress.current ELSE @.current,
                      total |-> IF doc.progress.total # read.progress.total
                                THEN doc.progress.total ELSE @.total],
        !.timeline = [i \in 1..Len(@) |->
                        IF i \in 1..Len(doc.timeline) /\ i \in 1..Len(read.timeline)
                        THEN [f \in DOMAIN @[i] |->
                                 IF doc.timeline[i][f] # read.timeline[i][f]
                                 THEN doc.timeline[i][f] ELSE @[i][f]]
                        ELSE @[i]]]

\* a request that has not reached its handler yet
Pending(a) == [pc |-> "find", admin |-> a, code |-> 0, error |-> ""]

Answered(r, code, error) == [pc |-> "done", admin |-> r.admin, code |-> code, error |-> error]

\* advanceOrderPhase from the findOne to the call of order.save()
findAndAdvance(p, k) ==
    /\ inflight[p].pc = "find"
    /\ LET r == inflight[p]
           order == findOrderByIdOrOrderId(k) IN
       inflight' = [inflight EXCEPT ![p] =
          IF order = NoOrder
          THEN Answered(r, 404, "not found")
          ELSE IF order.progress.current >= order.progress.total
          THEN Answered(r, 400, "Order is already at the final phase")
          ELSE [pc |-> "save", admin |-> r.admin, code |-> 0, error |-> "",
                read |-> order,
                order |-> [advancePhase(order) EXCEPT !.lastUpdatedBy = r.admin]]]
    /\ UNCHANGED <<orders, customers, last, requests, req, admin, accounts, now>>

\* order.save() that is refused when the stored document is no longer the
\* one read (a version check)
saveAdvanced_versionChecked(p, k) ==
    /\ inflight[p].pc = "save"
    /\ LET r == inflight[p] IN
       IF ~docValid(r.order)
       THEN /\ orders' = orders
            /\ inflight' = [inflight EXCEPT ![p] = Answered(r, 400, "ValidationError")]
       ELSE IF orders[k] # r.read
       THEN /\ orders' = orders
            /\ inflight' = [inflight EXCEPT ![p] = Answered(r, 409, "VersionError")]
       ELSE /\ orders' = [orders EXCEPT ![k] = save(orders[k], r.read, r.order)]
            /\ inflight' = [inflight EXCEPT ![p] = Answered(r, 200, "")]
    /\ UNCHANGED <<customers, last, requests, req, admin, accounts, now>>

\* advanceOrderPhase from order.save() to the response
saveAdvanced(p, k) ==
    /\ inflight[p].pc = "save"
    /\ LET r == inflight[p] IN
       IF ~docValid(r.order)
       THEN /\ orders' = orders
            /\ inflight' = [inflight EXCEPT ![p] = Answered(r, 400, "ValidationError")]
       ELSE /\ orders' = [orders EXCEPT ![k] = save(orders[k], r.read, r.order)]
            /\ inflight' = [inflight EXCEPT ![p] = Answered(r, 200, "")]
    /\ UNCHANGED <<customers, last, requests, req, admin, accounts, now>>

RaceInit ==
    /\ orders \in [OrderKeys -> StandardOrders]
    /\ last = Response("none", 0, "", EmptyObject)
    /\ requests = 0
    /\ req = [k \in OrderKeys |-> orders[k].progress.current]
    /\ admin = ""
    /\ customers = EmptyObject
    /\ inflight \in [Racers -> {Pending(a) : a \in Admins}]
    /\ accounts = EmptyObject
    /\ now = 0

RaceFind == \E p \in Racers, k \in OrderKeys : findAndAdvance(p, k)

RaceSave == \E p \in Racers, k \in OrderKeys : saveAdvanced(p, k)

RaceNext == RaceFind \/ RaceSave

SpecRace == RaceInit /\ [][RaceNext]_vars

\* the same requests on an order that starts well-formed
RaceInitWellFormed ==
    /\ orders \in [OrderKeys -> WellFormedOrders]
    /\ last = Response("none", 0, "", EmptyObject)
    /\ requests = 0
    /\ req = [k \in OrderKeys |-> orders[k].progress.current]
    /\ admin = ""
    /\ customers = EmptyObject
    /\ inflight \in [Racers -> {Pending(a) : a \in Admins}]
    /\ accounts = EmptyObject
    /\ now = 0

SpecRaceWellFormed == RaceInitWellFormed /\ [][RaceNext]_vars

\* ------------------------------------------------------------------------
\* Specification of concurrent createOrder requests and the orderId of the
\* documents they store.  The handler suspends at the Order.findOne of every
\* turn of its generation loop and at Order.create; the document of creator
\* p is stored under key p.  Soft deletes run next to the creates.
\* ------------------------------------------------------------------------
\* the number of concurrent create requests
MaxCreators == 3

Creators == 1..MaxCreators

\* Math.floor(Math.random() * 1000) gives 0..999; the model draws from
\* 0..MaxRandomNum
MaxRandomNum == 1

RandomNums == 0..MaxRandomNum

\* new Date().getFullYear()
CurrentYear == 2026

\* randomNum.toString().padStart(3, '0')
padStart(n) ==
    IF n < 10 THEN "00" \o ToString(n)
    ELSE IF n < 100 THEN "0" \o ToString(n)
    ELSE ToString(n)

\* `ORD-${year}-${randomNum}`
generatedOrderId(n) == "ORD-" \o ToString(CurrentYear) \o "-" \o padStart(n)

\* the orderId values a caller supplies: one the generator can produce too,
\* one it cannot
SuppliedOrderIds == {generatedOrderId(0), "ORD-2020-007"}

CreateRequests == {EmptyObject} \cup {[orderId |-> id] : id \in SuppliedOrderIds}

\* Order.findOne({ orderId }): any stored order, active or not
existingOrder(orderId) ==
    \E k \in DOMAIN orders : orders[k] # NoOrder /\ orders[k].orderId = orderId

\* a create request before its first await: if (!req.body.orderId) it
\* enters the generation loop
Creating(body) ==
    IF TruthyStr(body, "orderId")
    THEN [pc |-> "create", body |-> body, orderId |-> body.orderId, code |-> 0, error |-> ""]
    ELSE [pc |-> "generate", body |-> body, orderId |-> "", code |-> 0, error |-> ""]

\* generateOrderId that gives up when the identifier it drew is taken
generateOrderId_oneTry(p, n) ==
    /\ inflight[p].pc = "generate"
    /\ LET orderId == generatedOrderId(n) IN
       inflight' = [inflight EXCEPT ![p] =
          IF ~existingOrder(orderId)
          THEN [@ EXCEPT !.pc = "create", !.orderId = orderId]
          ELSE [@ EXCEPT !.pc = "done", !.code = 500, !.error = "no free orderId"]]
    /\ UNCHANGED <<orders, customers, last, requests, req, admin, accounts, now>>

\* one turn of while (!isUnique): draw a number, look the identifier up,
\* leave the loop if no order has it
generateOrderId(p, n) ==
    /\ inflight[p].pc = "generate"
    /\ LET orderId == generatedOrderId(n) IN
       inflight' = [inflight EXCEPT ![p] =
          IF ~existingOrder(orderId)
          THEN [@ EXCEPT !.pc = "create", !.orderId = orderId]
          ELSE @]
    /\ UNCHANGED <<orders, customers, last, requests, req, admin, accounts, now>>

\* Order.create without the unique index on orderId
insertOrder_noIndex(p) ==
    /\ inflight[p].pc = "create"
    /\ LET r == inflight[p]
           doc == orderSchema(createBody(byAdmin(r.body, "admin1"))) IN
       /\ orders' = [orders EXCEPT ![p] = Put(doc, "orderId", r.orderId)]
       /\ inflight' = [inflight EXCEPT ![p] = [@ EXCEPT !.pc = "done", !.code = 201]]
    /\ UNCHANGED <<customers, last, requests, req, admin, accounts, now>>

\* Order.create(req.body): orderId is unique: true, a duplicate key is
\* error 11000, which errorHandler answers with 400 "OrderId '...' already
\* exists"
insertOrder(p) ==
    /\ inflight[p].pc = "create"
    /\ LET r == inflight[p]
           doc == orderSchema(createBody(byAdmin(r.body, "admin1"))) IN
       IF existingOrder(r.orderId)
       THEN /\ orders' = orders
            /\ inflight' = [inflight EXCEPT ![p] =
                   [@ EXCEPT !.pc = "done", !.code = 400,
                             !.error = "OrderId '" \o r.orderId \o "' already exists"]]
       ELSE /\ orders' = [orders EXCEPT ![p] = Put(doc, "orderId", r.orderId)]
            /\ inflight' = [inflight EXCEPT ![p] = [@ EXCEPT !.pc = "done", !.code = 201]]
    /\ UNCHANGED <<customers, last, requests, req, admin, accounts, now>>

IdsInit ==
    /\ orders = [p \in Creators |-> NoOrder]
    /\ last = Response("none", 0, "", EmptyObject)
    /\ requests = 0
    /\ req = EmptyObject
    /\ admin = ""
    /\ customers = EmptyObject
    /\ inflight \in [Creators -> {Creating(body) : body \in CreateRequests}]
    /\ accounts = EmptyObject
    /\ now = 0

\* a turn of the loop that draws a free identifier
IdsGenerateFree(p) ==
    \E n \in RandomNums : ~existingOrder(generatedOrderId(n)) /\ generateOrderId(p, n)

\* a turn of the loop that draws a taken identifier
IdsGenerateTaken(p) ==
    \E n \in RandomNums : existingOrder(generatedOrderId(n)) /\ generateOrderId(p, n)

IdsInsert(p) == insertOrder(p)

IdsDelete ==
    /\ admin' = "admin1"
    /\ UNCHANGED <<requests, req, inflight, accounts, now>>
    /\ \E k \in Creators : orders[k] # NoOrder /\ orders[k].isActive /\ deleteOrder(k)

IdsNext ==
    \/ \E p \in Creators : IdsGenerateFree(p)
    \/ \E p \in Creators : IdsGenerateTaken(p)
    \/ \E p \in Creators : IdsInsert(p)
    \/ IdsDelete

SpecIds == IdsInit /\ [][IdsNext]_vars

\* Math.random() is fair: a loop that keeps turning while a free number
\* exists eventually draws one
SpecIdsFair == SpecIds /\ \A p \in Creators : SF_vars(IdsGenerateFree(p))

\* ------------------------------------------------------------------------
\* Specification of the admin login (controllers/authController login over
\* models/Admin) and of protect.  login suspends at Admin.findByEmail and at
\* matchPassword; incLoginAttempts and resetLoginAttempts send one updateOne,
\* computed from the document login read.  The clock counts hours.
\* ------------------------------------------------------------------------
\* the number of login requests of a run
MaxLogins == 6

\* the number of login requests in flight at a time
MaxSessions == 2

\* the last hour of the clock
MaxTime == 4

Sessions == 1..MaxSessions

\* this.loginAttempts + 1 >= 5
LockThreshold == 5

\* Date.now() + 2 * 60 * 60 * 1000
LockHours == 2

AdminEmail == "admin1"

LoginEmails == {AdminEmail, "nobody"}

Passwords == {"secret", "guess"}

\* $unset
Unset(o, f) == [x \in (DOMAIN o) \ {f} |-> o[x]]

\* an admin document as Admin.create stores it: loginAttempts default 0, no
\* lockUntil
adminSchema(isActive) == [isActive |-> isActive, password |-> "secret", loginAttempts |-> 0]

\* a document read from the collection: the default of a missing path
loginAttempts(doc) == IF Has(doc, "loginAttempts") THEN doc.loginAttempts ELSE 0

\* adminSchema.virtual('isLocked'): !!(this.lockUntil && this.lockUntil > Date.now())
isLocked(doc, t) == Has(doc, "lockUntil") /\ doc.lockUntil > t

\* bcrypt.compare(enteredPassword, this.password)
matchPassword(doc, enteredPassword) == enteredPassword = doc.password

\* adminSchema.methods.incLoginAttempts: the stored document after the
\* updateOne computed from the document read (this) at Date.now() = t
incLoginAttempts(stored, this, t) ==
    IF Has(this, "lockUntil") /\ this.lockUntil < t
    THEN Unset(Put(stored, "loginAttempts", 1), "lockUntil")
    ELSE LET inc == Put(stored, "loginAttempts", loginAttempts(stored) + 1) IN
         IF loginAttempts(this) + 1 >= LockThreshold /\ ~isLocked(this, t)
         THEN Put(inc, "lockUntil", t + LockHours)
         ELSE inc

\* adminSchema.methods.resetLoginAttempts
resetLoginAttempts(stored) == Unset(Unset(stored, "loginAttempts"), "lockUntil")

\* the response log of the login specification: the last response of
\* protect, and the number of failed password attempts answered since the
\* last successful login or the last lock
AuthResponse(op, code, error, fails) == [op |-> op, code |-> code, error |-> error, fails |-> fails]

\* a login request that has been answered
LoginAnswered(email, code, error) ==
    [pc |-> "done", email |-> email, password |-> "", code |-> code, error |-> error]

\* login from the request to the answer or to the await of matchPassword
loginFind(p, email, password) ==
    /\ inflight[p].pc = "done"
    /\ requests < MaxLogins
    /\ requests' = requests + 1
    /\ inflight' = [inflight EXCEPT ![p] =
          IF ~Has(accounts, email)
          THEN LoginAnswered(email, 401, "Invalid credentials")
          ELSE IF isLocked(accounts[email], now)
          THEN LoginAnswered(email, 423, "Account is temporarily locked due to too many failed login attempts")
          ELSE IF ~accounts[email].isActive
          THEN LoginAnswered(email, 401, "Account is deactivated")
          ELSE [pc |-> "password", email |-> email, password |-> password,
                code |-> 0, error |-> "", admin |-> accounts[email]]]
    /\ UNCHANGED <<orders, customers, last, req, admin, accounts, now>>

\* login from the result of matchPassword to the answer
loginPassword(p) ==
    /\ inflight[p].pc = "password"
    /\ LET r == inflight[p]
           stored == accounts[r.email] IN
       IF ~matchPassword(r.admin, r.password)
       THEN LET updated == incLoginAttempts(stored, r.admin, now) IN
            /\ accounts' = [accounts EXCEPT ![r.email] = updated]
            /\ inflight' = [inflight EXCEPT ![p] = LoginAnswered(r.email, 401, "Invalid credentials")]
            /\ last' = [last EXCEPT !.fails = IF isLocked(updated, now) THEN 0 ELSE @ + 1]
       ELSE /\ accounts' = [accounts EXCEPT ![r.email] = resetLoginAttempts(stored)]
            /\ inflight' = [inflight EXCEPT ![p] = LoginAnswered(r.email, 200, "")]
            /\ last' = [last EXCEPT !.fails = 0]
    /\ UNCHANGED <<orders, customers, requests, req, admin, now>>

\* protect on a request that carries the valid token of the admin
protect(email) ==
    /\ IF ~Has(accounts, email)
       THEN /\ last' = AuthResponse("protect", 401, "No admin found with this token", last.fails)
            /\ admin' = admin
       ELSE IF ~accounts[email].isActive
       THEN /\ last' = AuthResponse("protect", 401, "Admin account is deactivated", last.fails)
            /\ admin' = admin
       ELSE IF isLocked(accounts[email], now)
       THEN /\ last' = AuthResponse("protect", 401, "Admin account is temporarily locked", last.fails)
            /\ admin' = admin
       ELSE /\ last' = AuthResponse("protect", 200, "", last.fails)
            /\ admin' = email
    /\ UNCHANGED <<orders, customers, requests, req, inflight, accounts, now>>

AuthInit ==
    /\ orders = [k \in OrderKeys |-> NoOrder]
    /\ last = AuthResponse("none", 0, "", 0)
    /\ requests = 0
    /\ req = EmptyObject
    /\ admin = ""
    /\ customers = EmptyObject
    /\ inflight = [p \in Sessions |-> LoginAnswered("", 0, "")]
    /\ accounts \in {[e \in {AdminEmail} |-> adminSchema(isActive)] : isActive \in BOOLEAN}
    /\ now = 1

AuthLogin == \E p \in Sessions, email \in LoginEmails, password \in Passwords : loginFind(p, email, password)

AuthPassword == \E p \in Sessions : loginPassword(p)

AuthProtect == protect(AdminEmail)

\* an hour passes
AuthTick ==
    /\ now < MaxTime
    /\ now' = now + 1
    /\ UNCHANGED <<orders, customers, last, requests, req, admin, inflight, accounts>>

AuthNext == AuthLogin \/ AuthPassword \/ AuthProtect \/ AuthTick

SpecAuth == AuthInit /\ [][AuthNext]_vars

\* ------------------------------------------------------------------------
\* Properties
\* ------------------------------------------------------------------------
Stored(k) == orders[k] # NoOrder

Active(k) == Stored(k) /\ orders[k].isActive

\* the cursor table of the specification (statusFromCursor)
SpecStatusFromCursor(c) ==
    CASE c \in {1, 2} -> "Development"
      [] c \in {3, 4} -> "In Progress"
      [] c = 5 -> "Production"
      [] c = 6 -> "Shipped"
      [] c = 7 -> "Delivered"

\* the percentage thresholds of the specification (statusFromPercentage)
SpecStatusFromPercentage(c, t) ==
    CASE c * 100 >= 100 * t -> "Delivered"
      [] c * 100 < 100 * t /\ c * 100 >= 85 * t -> "Shipped"
      [] c * 100 < 85 * t /\ c * 100 >= 70 * t -> "Production"
      [] c * 100 < 70 * t /\ c * 100 >= 30 * t -> "In Progress"
      [] c * 100 < 30 * t -> "Development"

\* the status-to-cursor table of the specification (resolveInitialProgress)
SpecInitialCursor(body) ==
    IF ~Has(body, "status") THEN 1
    ELSE CASE body.status = "Development" -> 2
           [] body.status = "In Progress" -> 4
           [] body.status = "Production" -> 5
           [] body.status = "Shipped" -> 6
           [] body.status = "Delivered" -> 7
           [] OTHER -> 1

StepIsCompleted(step) ==
    step.status = "Completed" /\ step.isCompleted /\ ~step.isInProgress /\ ~step.isLocked

StepIsInProgress(step) ==
    step.status = "In Progress" /\ ~step.isCompleted /\ step.isInProgress /\ ~step.isLocked

StepIsLocked(step) ==
    step.status = "Locked" /\ ~step.isCompleted /\ ~step.isInProgress /\ step.isLocked

\* steps before position c Completed, step c InProgress, steps after c Locked
SweptAt(timeline, c) ==
    \A i \in 1..Len(timeline) :
        /\ i < c => StepIsCompleted(timeline[i])
        /\ i = c => StepIsInProgress(timeline[i])
        /\ i > c => StepIsLocked(timeline[i])

\* C1: every stored order has at most one step with isInProgress, that step
\* sits at index progress.current - 1, every step before it is Completed and
\* every step after it is Locked.
C1_SingleActiveStep ==
    \A k \in OrderKeys :
        Stored(k) =>
            LET tl == orders[k].timeline
                active == {i \in 1..Len(tl) : tl[i].isInProgress}
            IN  /\ Cardinality(active) <= 1
                /\ \A i \in active :
                      /\ i = orders[k].progress.current
                      /\ \A j \in 1..Len(tl) :
                            /\ j < i => tl[j].status = "Completed"
                            /\ j > i => tl[j].status = "Locked"

\* C2: advancePhase on a 7-step order with total 7 and cursor c < 7 succeeds,
\* yields cursor c+1, the status of the cursor table at c+1 and the title of
\* step c+1 as currentPhase, turns step c into Completed and step c+1 into
\* InProgress and unlocked.
C2_AdvanceStep ==
    [][\A k \in OrderKeys :
          (/\ Active(k)
           /\ orders[k].progress.total = 7
           /\ Len(orders[k].timeline) = 7
           /\ orders[k].progress.current < 7
           /\ advanceOrderPhase(k))
          => LET c == orders[k].progress.current
                 n == orders'[k]
             IN  /\ last'.code = 200
                 /\ n.progress = [current |-> c + 1, total |-> 7]
                 /\ n.status = SpecStatusFromCursor(c + 1)
                 /\ n.currentPhase = orders[k].timeline[c + 1].title
                 /\ c >= 1 => /\ n.timeline[c].status = "Completed"
                              /\ n.timeline[c].isCompleted
                              /\ ~n.timeline[c].isInProgress
                 /\ n.timeline[c + 1].status = "In Progress"
                 /\ n.timeline[c + 1].isInProgress
                 /\ ~n.timeline[c + 1].isLocked]_vars

\* C2 witness: an advance from cursor 4 has just produced cursor 5 of 7 with
\* status Production, step 4 Completed and step 5 InProgress.
C2_Witness ==
    \E k \in OrderKeys :
        /\ Stored(k)
        /\ last.op = "advance" /\ last.code = 200
        /\ orders[k].progress = [current |-> 5, total |-> 7]
        /\ Len(orders[k].timeline) = 7
        /\ orders[k].status = "Production"
        /\ orders[k].currentPhase = "Production Phase"
        /\ StepIsCompleted(orders[k].timeline[4])
        /\ StepIsInProgress(orders[k].timeline[5])

\* C3: advancePhase on an order with progress.current >= progress.total is
\* refused with 400 "already at the final phase" and the stored order is
\* left unmodified.
C3_AdvanceAtFinal ==
    [][\A k \in OrderKeys :
          (/\ Active(k)
           /\ orders[k].progress.current >= orders[k].progress.total
           /\ last'.op = "advance")
          => /\ last'.code = 400
             /\ last'.error = "Order is already at the final phase"
             /\ orders' = orders]_vars

\* C3 witness: an advance was refused on an order at cursor 7 of 7.
C3_Witness ==
    \E k \in OrderKeys :
        /\ Stored(k)
        /\ last.op = "advance" /\ last.code = 400
        /\ last.error = "Order is already at the final phase"
        /\ orders[k].progress = [current |-> 7, total |-> 7]
        /\ orders[k].status = "Delivered"

\* the outcome C4 describes for step i and target title
SetPhaseOutcome(n, i, title) ==
    /\ n.progress.current = i
    /\ n.status = SpecStatusFromCursor(i)
    /\ n.currentPhase = title
    /\ SweptAt(n.timeline, i)

C5_InvalidPhase ==
    [][\A k \in OrderKeys, body \in PhasePayloads :
          (/\ Active(k)
           /\ last'.op = "phase" /\ last'.carried = DOMAIN body
           /\ Has(body, "phase")
           /\ \A i \in 1..Len(orders[k].timeline) : orders[k].timeline[i].title # body.phase
           /\ updateOrderPhase(k, body))
          => /\ last'.code = 400
             /\ last'.error = "Invalid phase specified"
             /\ orders' = orders]_vars

\* C5 witness: a setPhase that carried a title and an explicit progress was
\* refused as an invalid phase.
C5_Witness ==
    \E k \in OrderKeys :
        /\ Stored(k)
        /\ last.op = "phase" /\ last.code = 400
        /\ last.error = "Invalid phase specified"
        /\ last.carried = {"phase", "progress"}

\* C6: create with no timeline and no progress takes the cursor from the
\* declared status (development 2, in progress 4, production 5, shipped 6,
\* delivered 7, anything else 1) with total 7, builds the 7 steps around that
\* cursor and takes the title of the cursor's step as currentPhase.
C6_CreateFromStatus ==
    [][\A k \in OrderKeys, body \in CreatePayloads :
          (/\ last'.op = "create" /\ last'.carried = DOMAIN body
           /\ DOMAIN body \subseteq {"status", "timeline"}
           /\ Has(body, "timeline") => body.timeline = <<>>
           /\ createOrder(k, body))
          => LET c == SpecInitialCursor(body)
                 n == orders'[k]
             IN  /\ last'.code = 201
                 /\ n.progress = [current |-> c, total |-> 7]
                 /\ Len(n.timeline) = 7
                 /\ SweptAt(n.timeline, c)
                 /\ n.currentPhase = n.timeline[c].title]_vars

\* C6 witness: a create that carried only status "Shipped" has stored cursor 6
\* with steps 1-5 Completed, step 6 InProgress and step 7 Locked.
C6_Witness ==
    \E k \in OrderKeys :
        /\ Stored(k)
        /\ last.op = "create" /\ last.code = 201 /\ last.carried = {"status"}
        /\ orders[k].status = "Shipped"
        /\ orders[k].progress = [current |-> 6, total |-> 7]
        /\ \A i \in 1..5 : StepIsCompleted(orders[k].timeline[i])
        /\ StepIsInProgress(orders[k].timeline[6])
        /\ StepIsLocked(orders[k].timeline[7])
        /\ orders[k].currentPhase = orders[k].timeline[6].title

\* count(isCompleted) + (1 if any isInProgress) over the first 7 supplied
\* steps, clamped to 1..7
SpecCursorFromFlags(timeline) ==
    LET first == 1..Min(Len(timeline), 7)
        completed == Cardinality({i \in first : TruthyBool(timeline[i], "isCompleted")})
        inProgress == IF \E i \in first : TruthyBool(timeline[i], "isInProgress") THEN 1 ELSE 0
    IN  Min(Max(completed + inProgress, 1), 7)

\* C7: applyUpdate with a supplied timeline array of any length sets
\* progress.total to 7 and progress.current to the clamped flag count of the
\* first 7 supplied steps and, when no status is supplied, derives the status
\* from that cursor by the percentage thresholds.
C7_UpdateRecomputes ==
    \A k \in OrderKeys :
        (last.op = "update" /\ Has(req, "timeline"))
        => LET c == SpecCursorFromFlags(req.timeline) IN
           /\ last.code = 200
           /\ orders[k].progress = [current |-> c, total |-> 7]
           /\ ~Has(req, "status") => orders[k].status = SpecStatusFromPercentage(c, 7)

\* C7 witness: an update that carried only the timeline with steps 1-3
\* isCompleted and step 4 isInProgress has stored cursor 4 of 7 with status
\* In Progress.
C7_Witness ==
    \E k \in OrderKeys :
        /\ last.op = "update" /\ last.code = 200
        /\ req = [timeline |-> <<[isCompleted |-> TRUE], [isCompleted |-> TRUE],
                                 [isCompleted |-> TRUE], [isInProgress |-> TRUE]>>]
        /\ orders[k].progress = [current |-> 4, total |-> 7]
        /\ orders[k].status = "In Progress"
        /\ SweptAt(orders[k].timeline, 4)

\* C8: every stored order's timeline has exactly 7 steps.
C8_SevenSteps ==
    \A k \in OrderKeys : Stored(k) => Len(orders[k].timeline) = 7

\* C9: in every step of every stored order the status enum and the three
\* flags agree and exactly one of the flags is true.
C9_FlagsAgree ==
    \A k \in OrderKeys :
        Stored(k) =>
            \A i \in 1..Len(orders[k].timeline) :
                LET step == orders[k].timeline[i] IN
                \/ StepIsCompleted(step)
                \/ StepIsInProgress(step)
                \/ StepIsLocked(step)

\* C10: every stored order satisfies 0 <= progress.current <= progress.total.
C10_CursorWithinTotal ==
    \A k \in OrderKeys :
        Stored(k) =>
            /\ 0 <= orders[k].progress.current
            /\ orders[k].progress.current <= orders[k].progress.total

\* C11: every stored order's currentPhase is the title of the timeline step
\* at index progress.current - 1 (create requests carry no currentPhase).
C11_CurrentPhaseAtCursor ==
    \A k \in OrderKeys :
        Stored(k) =>
            /\ orders[k].progress.current \in 1..Len(orders[k].timeline)
            /\ orders[k].currentPhase = orders[k].timeline[orders[k].progress.current].title

\* C12 as stated: in applyUpdate every field the caller supplies (status,
\* progress.current, progress.total, currentPhase) is stored as supplied,
\* also when the payload carries a timeline.
C12_ExplicitFieldsWin ==
    \A k \in OrderKeys :
        (last.op = "update" /\ last.code = 200)
        => /\ Has(req, "status") => orders[k].status = req.status
           /\ (Has(req, "progress") /\ Has(req.progress, "current"))
                 => orders[k].progress.current = req.progress.current
           /\ (Has(req, "progress") /\ Has(req.progress, "total"))
                 => orders[k].progress.total = req.progress.total
           /\ Has(req, "currentPhase") => orders[k].currentPhase = req.currentPhase

\* C12 amended: a supplied status is always stored as supplied; a supplied
\* progress.current, progress.total and currentPhase are stored as supplied
\* when the payload carries no timeline, and are replaced by the values
\* derived from the timeline (flag count, 7, title of the cursor's step)
\* when it carries one.
C12_ExplicitStatusWins ==
    \A k \in OrderKeys :
        (last.op = "update" /\ last.code = 200)
        => /\ Has(req, "status") => orders[k].status = req.status
           /\ ~Has(req, "timeline") =>
                 /\ (Has(req, "progress") /\ Has(req.progress, "current"))
                       => orders[k].progress.current = req.progress.current
                 /\ (Has(req, "progress") /\ Has(req.progress, "total"))
                       => orders[k].progress.total = req.progress.total
                 /\ Has(req, "currentPhase") => orders[k].currentPhase = req.currentPhase
           /\ Has(req, "timeline") =>
                 LET c == SpecCursorFromFlags(req.timeline) IN
                 /\ orders[k].progress = [current |-> c, total |-> 7]
                 /\ orders[k].currentPhase = orders[k].timeline[c].title

\* C12 witness: an update that carried status Cancelled, progress 2 of 10,
\* a currentPhase and a timeline with 3 completed steps and an active one has
\* stored the status as supplied and the derived cursor 4 of 7 and phase.
C12_Witness ==
    \E k \in OrderKeys :
        /\ last.op = "update" /\ last.code = 200
        /\ req = [status |-> "Cancelled", progress |-> [current |-> 2, total |-> 10],
                  currentPhase |-> "Transport Phase", timeline |-> TimelineShape(3, 1, 0)]
        /\ orders[k].status = "Cancelled"
        /\ orders[k].progress = [current |-> 4, total |-> 7]
        /\ orders[k].currentPhase = "Sample Approved"

\* C13: the status Cancelled is produced only by a create or an update that
\* carries an explicit status: a successful advancePhase or setPhase never
\* stores Cancelled, and a request that changes the stored order without
\* carrying a status never stores Cancelled.
C13_CancelledOnlyExplicit ==
    [][\A k \in OrderKeys :
          /\ (last'.op \in {"advance", "phase"} /\ last'.code = 200)
                => orders'[k].status # "Cancelled"
          /\ (Stored(k)' /\ orders'[k].status = "Cancelled" /\ orders'[k] # orders[k])
                => /\ last'.op \in {"create", "update"}
                   /\ "status" \in last'.carried]_vars

\* C13 witness: a setPhase with an explicit progress below 0 has stored
\* cursor 0, for which the status table has no entry, and the status is
\* Development.
C13_Witness ==
    \E k \in OrderKeys :
        /\ Stored(k)
        /\ last.op = "phase" /\ last.code = 200 /\ last.carried = {"phase", "progress"}
        /\ orders[k].progress.current = 0
        /\ orders[k].status = "Development"

\* C14: once an order's status is Delivered with cursor 7, or Cancelled at any
\* cursor, no advancePhase or setPhase request changes its status or cursor.
C14_TerminalStates ==
    [][\A k \in OrderKeys :
          (/\ Active(k)
           /\ \/ orders[k].status = "Delivered" /\ orders[k].progress.current = 7
              \/ orders[k].status = "Cancelled"
           /\ last'.op \in {"advance", "phase"})
          => /\ orders'[k].status = orders[k].status
             /\ orders'[k].progress.current = orders[k].progress.current]_vars

\* C15: on a 7-step order with total 7 that starts at cursor k0 (kept in
\* req), after n consecutive advancePhase requests the cursor is
\* min(k0 + n, 7): the n-th request succeeded iff n <= 7 - k0, every later one
\* fails with "already at the final phase", and from the (7 - k0)-th request
\* on the order sits on cursor 7 with status Delivered.
C15_AdvanceStrictlyOne ==
    \A k \in OrderKeys :
        LET k0 == req[k]
            n == requests
            o == orders[k]
        IN  /\ o.progress.current = Min(k0 + n, 7)
            /\ n >= 1 => (last.code = 200 <=> n <= 7 - k0)
            /\ (n >= 1 /\ n > 7 - k0)
                  => /\ last.code = 400
                     /\ last.error = "Order is already at the final phase"
            /\ (k0 < 7 /\ n >= 7 - k0)
                  => /\ o.progress.current = 7
                     /\ o.status = "Delivered"

\* C15 witness: an order that started at cursor 4 is at cursor 7 with status
\* Delivered after 3 successful advances, and the 4th advance was refused.
C15_Witness ==
    \E k \in OrderKeys :
        /\ req[k] = 4
        /\ requests = 4
        /\ last.op = "advance" /\ last.code = 400
        /\ last.error = "Order is already at the final phase"
        /\ orders[k].progress = [current |-> 7, total |-> 7]
        /\ orders[k].status = "Delivered"

\* the number of active orders whose customer.email is email
ActiveOrdersOf(email) ==
    Cardinality({k \in DOMAIN orders :
                    /\ orders[k] # NoOrder
                    /\ orders[k].isActive
                    /\ Has(orders[k].customer, "email")
                    /\ orders[k].customer.email = email})

\* C19: after every successful order create, update, soft delete or hard
\* delete, each customer's totalOrders equals the number of active orders
\* whose customer.email is that customer's email.
C19_TotalOrdersExact ==
    (last.op \in {"create", "update", "delete", "hardDelete"} /\ last.code \in {200, 201})
    => \A email \in DOMAIN customers :
          customers[email].totalOrders = ActiveOrdersOf(email)

\* the requests C20 lists, addressed to the order with storage key k
LaterRequest(k) ==
    \/ last'.op = "get" /\ getOrder(k)
    \/ last'.op = "update" /\ \E body \in StoreUpdatePayloads :
                                 last'.carried = DOMAIN body /\ updateOrder(k, body)
    \/ last'.op = "advance" /\ advanceOrderPhase(k)
    \/ last'.op = "phase" /\ \E body \in StorePhasePayloads : updateOrderPhase(k, body)
    \/ last'.op = "delete" /\ deleteOrder(k)

\* what C20 and its amendment share: every get, update, advancePhase,
\* setPhase or soft delete addressed to a soft-deleted order fails with 404
\* and modifies nothing, and a hard delete finds and removes it
SoftDeletedIsGone(k) ==
    (Stored(k) /\ ~orders[k].isActive)
    => /\ LaterRequest(k) => (last'.code = 404 /\ orders' = orders)
       /\ (last'.op = "hardDelete" /\ hardDeleteOrder(k))
             => (last'.code = 200 /\ orders'[k] = NoOrder)

\* C20 as stated: after deleteOrder succeeds the order stays in the store
\* with isActive = false and all other fields unchanged, and later requests
\* addressed to it fail with 404 except hard delete.
C20_SoftDeleteOnlyFlag ==
    [][\A k \in StoreKeys :
          /\ (Active(k) /\ last'.op = "delete" /\ deleteOrder(k))
                => /\ last'.code = 200
                   /\ orders'[k] = [orders[k] EXCEPT !.isActive = FALSE]
          /\ SoftDeletedIsGone(k)]_vars

\* C20 amended: after deleteOrder succeeds the order stays in the store with
\* isActive = false, lastUpdatedBy = the deleting admin and all other fields
\* unchanged, and later requests addressed to it fail with 404 except hard
\* delete.
C20_SoftDeleteFlagAndAdmin ==
    [][\A k \in StoreKeys :
          /\ (Active(k) /\ last'.op = "delete" /\ deleteOrder(k))
                => /\ last'.code = 200
                   /\ orders'[k] = [orders[k] EXCEPT !.isActive = FALSE,
                                                     !.lastUpdatedBy = admin']
          /\ SoftDeletedIsGone(k)]_vars

\* C20 witness: every order of the store is soft-deleted and still stored,
\* and an advance addressed to one of them was answered with 404.
C20_Witness ==
    /\ \A k \in StoreKeys : Stored(k) /\ ~orders[k].isActive
    /\ last.op = "advance" /\ last.code = 404

\* C16: no concurrent-edit detection, last writer wins: the save of an
\* advancePhase request succeeds whatever was stored since its read, and
\* stores the cursor it read plus 1, so two requests that read the same
\* cursor both report success and the stored cursor moves by 1.
C16_LastWriterWins ==
    [][\A p \in Racers, k \in OrderKeys :
          (inflight[p].pc = "save" /\ inflight'[p].pc = "done")
          => /\ inflight'[p].code = 200
             /\ orders'[k].progress.current = inflight[p].read.progress.current + 1]_vars

\* C16 witness: two advancePhase requests have both reported success on an
\* order that started at cursor 3, and the stored cursor is 4: one transition
\* was applied twice.
C16_Witness ==
    \E k \in OrderKeys, p, q \in Racers :
        /\ p # q
        /\ inflight[p].pc = "done" /\ inflight[p].code = 200
        /\ inflight[q].pc = "done" /\ inflight[q].code = 200
        /\ req[k] = 3
        /\ orders[k].progress.current = 4

\* C17: no two stored orders, active or soft-deleted, share an orderId, under
\* every interleaving of concurrent creates with generated and with supplied
\* identifiers.
C17_UniqueOrderId ==
    \A k1, k2 \in DOMAIN orders :
        (k1 # k2 /\ orders[k1] # NoOrder /\ orders[k2] # NoOrder)
        => orders[k1].orderId # orders[k2].orderId

\* C17 witness: a soft-deleted order holds a generated identifier, a second
\* order is stored, and a create that had generated its identifier was
\* refused at the insert because the identifier was taken by then.
C17_Witness ==
    /\ \E k \in DOMAIN orders :
          /\ orders[k] # NoOrder /\ ~orders[k].isActive
          /\ orders[k].orderId = generatedOrderId(0)
    /\ \E k \in DOMAIN orders : orders[k] # NoOrder /\ orders[k].isActive
    /\ \E p \in Creators :
          /\ inflight[p].pc = "done" /\ inflight[p].code = 400
          /\ inflight[p].error = "OrderId '" \o generatedOrderId(0) \o "' already exists"
          /\ ~Has(inflight[p].body, "orderId")

\* every identifier the generator can produce is held by a stored order
AllTaken == \A n \in RandomNums : existingOrder(generatedOrderId(n))

\* C18: the generation loop of a create leaves the loop with a free
\* identifier as long as one of the generator's identifiers is unused, and
\* has no retry bound: once all of them are taken a request in the loop stays
\* in it.
C18_LoopTermination ==
    /\ \A p \in Creators :
          (inflight[p].pc = "generate") ~> (inflight[p].pc # "generate" \/ AllTaken)
    /\ [][\A p \in Creators :
             (AllTaken /\ inflight[p].pc = "generate") => inflight'[p].pc = "generate"]_vars

\* C18 witness: every identifier of the generator is taken, one create that
\* generated its identifier was answered 201 and another is in the loop.
C18_Witness ==
    /\ AllTaken
    /\ \E p \in Creators :
          /\ inflight[p].pc = "done" /\ inflight[p].code = 201
          /\ ~Has(inflight[p].body, "orderId")
    /\ \E p \in Creators : inflight[p].pc = "generate"

\* the 7 titles of the canonical template, in order
CanonicalTitles ==
    << "Offer Accepted", "Mold / Product in Development", "Sample Sent to Client",
       "Sample Approved", "Production Phase", "Transport Phase",
       "Delivered to Final Location" >>

\* C22: the timeline a create without a timeline stores for its cursor c has
\* exactly 7 steps with the template titles, c in 1..7, one InProgress step at
\* index c-1, c-1 Completed steps, all before it, and 7-c Locked steps, all
\* after it, each step's flags agreeing with its status.
C22_DefaultTimeline ==
    \A k \in OrderKeys :
        last.op = "create"
        => LET tl == orders[k].timeline
               c == orders[k].progress.current
           IN  /\ last.code = 201
               /\ c \in 1..7
               /\ Len(tl) = 7
               /\ \A i \in 1..7 : tl[i].title = CanonicalTitles[i]
               /\ {i \in 1..7 : tl[i].status = "In Progress"} = {c}
               /\ {i \in 1..7 : tl[i].status = "Completed"} = 1..(c - 1)
               /\ {i \in 1..7 : tl[i].status = "Locked"} = (c + 1)..7
               /\ SweptAt(tl, c)

\* C22 witness: a create that carried only progress.current 3 has stored 7
\* steps, steps 1-2 Completed, step 3 InProgress, steps 4-7 Locked.
C22_Witness ==
    \E k \in OrderKeys :
        /\ last.op = "create" /\ last.code = 201
        /\ req = [progress |-> [current |-> 3]]
        /\ orders[k].progress.current = 3
        /\ Len(orders[k].timeline) = 7
        /\ \A i \in 1..2 : StepIsCompleted(orders[k].timeline[i])
        /\ StepIsInProgress(orders[k].timeline[3])
        /\ \A i \in 4..7 : StepIsLocked(orders[k].timeline[i])

C23_GapLocked ==
    \A k \in OrderKeys :
        (last.op = "update" /\ last.code = 200 /\ Has(req, "timeline") /\ Len(req.timeline) < 7)
        => \A i \in (Len(req.timeline) + 1)..7 : StepIsLocked(orders[k].timeline[i])

\* C23 amended: every step the caller did not supply is Locked, except the
\* step at the new cursor, which is InProgress; the cursor lands on a step
\* that was not supplied only when the array is empty or a supplied step
\* carries isCompleted and isInProgress together; no such step is Completed.
C23_GapLockedButCursor ==
    \A k \in OrderKeys :
        (last.op = "update" /\ last.code = 200 /\ Has(req, "timeline") /\ Len(req.timeline) < 7)
        => LET n == Len(req.timeline)
               c == orders[k].progress.current
           IN  /\ \A i \in (n + 1)..7 :
                     IF i = c THEN StepIsInProgress(orders[k].timeline[i])
                     ELSE StepIsLocked(orders[k].timeline[i])
               /\ c > n =>
                     \/ n = 0
                     \/ \E i \in 1..n : /\ TruthyBool(req.timeline[i], "isCompleted")
                                        /\ TruthyBool(req.timeline[i], "isInProgress")

\* C23 witness: an update that supplied three completed steps and one
\* in-progress step has stored cursor 4 with steps 5-7 Locked.
C23_Witness ==
    \E k \in OrderKeys :
        /\ last.op = "update" /\ last.code = 200
        /\ req = [timeline |-> <<StepDone, StepDone, StepDone, StepActive>>]
        /\ orders[k].progress.current = 4
        /\ StepIsInProgress(orders[k].timeline[4])
        /\ \A i \in 5..7 : StepIsLocked(orders[k].timeline[i])

\* C24: after an update that supplied a timeline the 7 titles of the stored
\* timeline are the 7 canonical template titles, in order.
C24_TitleRoundTrip ==
    \A k \in OrderKeys :
        (last.op = "update" /\ last.code = 200 /\ Has(req, "timeline"))
        => /\ Len(orders[k].timeline) = 7
           /\ \A i \in 1..7 : orders[k].timeline[i].title = CanonicalTitles[i]

\* C25: on a 7-step order with total 7 and a cursor in 1..7 the status the
\* update path stores (percentage thresholds) is the status of the cursor
\* table, and the status the phase and advance paths store (cursor table) is
\* the status of the percentage thresholds.
C25_MappersAgree ==
    \A k \in OrderKeys :
        (/\ last.code = 200
         /\ orders[k].progress.total = 7
         /\ orders[k].progress.current \in 1..7)
        => LET c == orders[k].progress.current IN
           /\ SpecStatusFromPercentage(c, 7) = SpecStatusFromCursor(c)
           /\ last.op = "update" =>
                 /\ orders[k].status = SpecStatusFromCursor(c)
                 /\ orders[k].status = updateStatus(orders[k]).status
           /\ last.op \in {"phase", "advance"} =>
                 /\ orders[k].status = SpecStatusFromPercentage(c, 7)
                 /\ orders[k].status = statusFromPercent(orders[k].progress)

\* C25 witness: an update that carried progress 5 of 7 has stored status
\* Production, the status of cursor 5 in the table.
C25_Witness ==
    \E k \in OrderKeys :
        /\ last.op = "update" /\ last.code = 200
        /\ req = [progress |-> [current |-> 5, total |-> 7]]
        /\ orders[k].progress = [current |-> 5, total |-> 7]
        /\ orders[k].status = "Production"
        /\ updateStatus(orders[k]).status = "Production"

\* C26: the sweep is idempotent: for every timeline and every cursor the
\* timeline after two passes with the same cursor (of the sweep of updateOrder,
\* of the sweep of updateOrderPhase, or one of each) is the timeline after one.
C26_SweepIdempotent ==
    requests = 2 => inflight.timeline = inflight.once

\* C26 witness: two passes with cursor 2 over three steps, the last with
\* contradicting flags, that the first pass changed.
C26_Witness ==
    /\ requests = 2
    /\ req.current = 2
    /\ Len(req.timeline) = 3
    /\ req.timeline[3] = Step("Custom Step", "Locked", TRUE, TRUE, FALSE)
    /\ inflight.once # req.timeline
    /\ inflight.timeline = inflight.once
    /\ SweptAt(inflight.timeline, 2)

\* C27: for a 7-step timeline that is the sweep of its cursor k in 1..7, the
\* cursor recomputed from the flags is k and the sweep of that cursor is the
\* same timeline; an update that sends an order's own such timeline stores
\* the same cursor and the same steps.
C27_WellFormedFixedPoint ==
    \A k \in OrderKeys :
        LET t == req.timeline
            enforced == enforcedTimeline(normalizedIncoming(t))
            c == computedCurrent(enforced)
        IN  /\ requests = 0 =>
                  /\ t = orders[k].timeline
                  /\ c = orders[k].progress.current
                  /\ enforceSingleActiveStep(enforced, c - 1) = t
            /\ requests = 1 =>
                  /\ last.op = "update" /\ last.code = 200
                  /\ orders[k].timeline = t
                  /\ \A i \in 1..7 :
                        StepIsInProgress(t[i]) => orders[k].progress.current = i

\* C27 witness: an order on cursor 3 whose first two steps carry a title of
\* the caller's has been sent its own timeline and still has cursor 3 and
\* the same steps.
C27_Witness ==
    \E k \in OrderKeys :
        /\ last.op = "update" /\ last.code = 200
        /\ StepIsInProgress(req.timeline[3])
        /\ req.timeline[1].title = "Custom Step"
        /\ orders[k].progress.current = 3
        /\ orders[k].timeline = req.timeline
        /\ SweptAt(orders[k].timeline, 3)

\* C28: an update that carries progress but no timeline (and no currentPhase)
\* stores the progress values it carries, stores the supplied status or, when
\* none is supplied, the status of the percentage thresholds, and leaves the
\* stored timeline and currentPhase as they were.
C28_ProgressOnlyFrame ==
    [][\A k \in OrderKeys :
          (/\ requests = 0 /\ requests' = 1
           /\ Has(req, "progress") /\ ~Has(req, "timeline") /\ ~Has(req, "currentPhase"))
          => /\ last'.op = "update" /\ last'.code = 200
             /\ \A f \in DOMAIN req.progress : orders'[k].progress[f] = req.progress[f]
             /\ Has(req, "status") => orders'[k].status = req.status
             /\ (~Has(req, "status") /\ DOMAIN req.progress = {"current", "total"})
                   => orders'[k].status =
                         SpecStatusFromPercentage(req.progress.current, req.progress.total)
             /\ orders'[k].timeline = orders[k].timeline
             /\ orders'[k].currentPhase = orders[k].currentPhase]_vars

\* C28 witness: an order created on cursor 1 has received progress 7 of 10:
\* it stores that progress and status Production while step 1 is still the
\* InProgress step and currentPhase is still the title of step 1.
C28_Witness ==
    \E k \in OrderKeys :
        /\ last.op = "update" /\ last.code = 200
        /\ req = [progress |-> [current |-> 7, total |-> 10]]
        /\ orders[k].progress = [current |-> 7, total |-> 10]
        /\ orders[k].status = "Production"
        /\ SweptAt(orders[k].timeline, 1)
        /\ orders[k].currentPhase = "Offer Accepted"

\* C30: under every interleaving of concurrent advance requests on an order
\* that starts well-formed, the stored cursor never exceeds progress.total
\* and never decreases, and the stored timeline always has exactly one
\* InProgress step, at index cursor - 1.
C30_RaceKeepsOrderWellFormed ==
    /\ [](\A k \in OrderKeys :
             /\ orders[k].progress.current <= orders[k].progress.total
             /\ {i \in 1..Len(orders[k].timeline) : orders[k].timeline[i].isInProgress}
                   = {orders[k].progress.current})
    /\ [][\A k \in OrderKeys :
             orders'[k].progress.current >= orders[k].progress.current]_vars

\* C21: the fifth failed password attempt in a row on an active account locks
\* it, a lock lasts LockHours from the moment it is set, a login on a locked
\* account is answered 423 and changes nothing of the account, protect
\* rejects the locked admin's token, and a successful login resets the
\* attempt counter.
C21_Lockout ==
    /\ [](last.fails < LockThreshold)
    /\ [][\A e \in DOMAIN accounts :
             (/\ Has(accounts'[e], "lockUntil")
              /\ ~Has(accounts[e], "lockUntil") \/ accounts[e].lockUntil # accounts'[e].lockUntil)
             => accounts'[e].lockUntil = now + LockHours]_vars
    /\ [][\A p \in Sessions :
             (/\ requests' = requests + 1
              /\ inflight'[p] # inflight[p]
              /\ isLocked(accounts[AdminEmail], now)
              /\ inflight'[p].email = AdminEmail)
             => /\ inflight'[p].code = 423
                /\ accounts' = accounts]_vars
    /\ [][(/\ last'.op = "protect" /\ last' # last
           /\ isLocked(accounts[AdminEmail], now))
          => last'.code = 401 /\ admin' = admin]_vars
    /\ [][\A p \in Sessions :
             (inflight[p].pc = "password" /\ inflight'[p].code = 200)
             => /\ loginAttempts(accounts'[AdminEmail]) = 0
                /\ ~Has(accounts'[AdminEmail], "lockUntil")]_vars

====
